---- MODULE Spec2Model ----
(***************************************************************************)
(* A model of the ingestion and synchronisation core of claude-code-rag:   *)
(* the MCP server's tool handlers (mcp_server.py), the partition routing   *)
(* of the three entry points (mcp_server.py, web_ui.py, rag_tui.py), the   *)
(* segmenters and the persisted sync-state table.                          *)
(*                                                                         *)
(* Text is a sequence of one-character strings.  A digest is modelled as   *)
(* an injective tagged string ("md5(x)", "sha256(x)"), a truncated digest  *)
(* as the digest with its length ("md5(x)[:8]"): two digests are equal     *)
(* exactly when algorithm, input and length are.  Timestamps (indexed_at)  *)
(* are left out of the rows: no modelled handler reads them back.          *)
(***************************************************************************)
EXTENDS Integers, Sequences, FiniteSets, TLC

\* ------------------------------------------------------------------ bounds
MaxSteps == 4          \* tool calls and file edits in one behaviour
MaxFaults == 1         \* tool calls in which the embedding service or the store fails
MaxReads == 1          \* searches and listings in one behaviour
MaxMemSteps == 3       \* steps of one behaviour of the memory operations
MaxIOCalls == 2        \* rag_sync calls and file edits of one step-wise behaviour
MaxStores == 1         \* rag_store calls in one behaviour (each makes a fresh id)
MaxCapSteps == 3       \* session records written and rag_capture calls
MaxLines == 2          \* records in the session files
MaxPathSteps == 2      \* rag_sync and rag_export calls of one behaviour
MaxBackupSteps == 4    \* rag_sync, rag_backup and rag_restore calls of one behaviour

\* ------------------------------------------------------- program constants
CHUNK_SIZE == 500      \* default chunk_size of every chunker
OVERLAP == 50          \* overlap of the windowed splitters
FORGET_N == 10         \* n_results of the query in rag_forget

SCOPE_GLOBAL == "global"
SCOPE_PROJECT == "project"
SCOPE_ALL == "all"
CHROMA_PATH == "~/.local/share/claude-memory"

\* ------------------------------------------------------------------- text
WS == {" ", "\n", "\t"}

RECURSIVE Str(_)
Str(s) == IF s = <<>> THEN "" ELSE Head(s) \o Str(Tail(s))

Min(a, b) == IF a < b THEN a ELSE b

\* s[i:j] of Python, 0-based, j clipped to the length
Slice(s, i, j) == SubSeq(s, i + 1, Min(j, Len(s)))

RECURSIVE lstrip(_)
lstrip(s) == IF s # <<>> /\ Head(s) \in WS THEN lstrip(Tail(s)) ELSE s

RECURSIVE rstrip(_)
rstrip(s) ==
    IF s # <<>> /\ s[Len(s)] \in WS THEN rstrip(SubSeq(s, 1, Len(s) - 1)) ELSE s

strip(s) == rstrip(lstrip(s))

\* the letters, for str.lower() and for the character classes of patterns
ASCII_UPPER ==
    <<"A", "B", "C", "D", "E", "F", "G", "H", "I", "J", "K", "L", "M",
      "N", "O", "P", "Q", "R", "S", "T", "U", "V", "W", "X", "Y", "Z">>
ASCII_LOWER ==
    <<"a", "b", "c", "d", "e", "f", "g", "h", "i", "j", "k", "l", "m",
      "n", "o", "p", "q", "r", "s", "t", "u", "v", "w", "x", "y", "z">>
\* the character U+0060, which a string of this notation cannot hold
BACKTICK == "U+0060"
DIGITS == {"0", "1", "2", "3", "4", "5", "6", "7", "8", "9"}

\* the characters of \w
WORD_CHARS ==
    {ASCII_LOWER[i] : i \in 1..Len(ASCII_LOWER)}
        \cup {ASCII_UPPER[i] : i \in 1..Len(ASCII_UPPER)} \cup DIGITS \cup {"_"}

\* the literal lit stands in text at position i
HasAt(text, i, lit) ==
    /\ i + Len(lit) - 1 <= Len(text)
    /\ \A j \in 1..Len(lit) : text[i + j - 1] = lit[j]

\* "lit in text"
Contains(text, lit) == \E i \in 1..(Len(text) + 1) : HasAt(text, i, lit)

\* ---------------------------------------------------------------- digests
Md5Hex(x) == "md5(" \o x \o ")"
Sha256Hex(x) == "sha256(" \o x \o ")"
Prefix(h, n) == h \o "[:" \o ToString(n) \o "]"

\* ------------------------------------------------------------- segmenters
\* range(i, n, step) of Python as the sequence of its values: with a
\* negative step it counts down from i to above n, so it is empty when i is
\* not above n; a zero step raises in Python (range_raises) and is never
\* asked of this operator.
RECURSIVE RangeFrom(_, _, _)
RangeFrom(i, n, step) ==
    IF step > 0 THEN (IF i >= n THEN <<>> ELSE <<i>> \o RangeFrom(i + step, n, step))
    ELSE IF step < 0 THEN (IF i <= n THEN <<>> ELSE <<i>> \o RangeFrom(i + step, n, step))
    ELSE <<>>

\* "ValueError: range() arg 3 must not be zero"
range_raises(chunk_size) == chunk_size - OVERLAP = 0

\* the windows content[i:i+chunk_size] for i in range(0, len, chunk_size-50),
\* blank windows dropped, the others stripped
RECURSIVE WindowsAt(_, _, _)
WindowsAt(content, starts, chunk_size) ==
    IF starts = <<>> THEN <<>>
    ELSE LET w == Slice(content, Head(starts), Head(starts) + chunk_size)
             rest == WindowsAt(content, Tail(starts), chunk_size)
         IN IF strip(w) # <<>>
            THEN <<[text |-> strip(w), type |-> "chunk"]>> \o rest
            ELSE rest

\* mutant: the windows follow one another without overlap
Windows_without_overlap(content, chunk_size) ==
    WindowsAt(content, RangeFrom(0, Len(content), chunk_size), chunk_size)

Windows(content, chunk_size) ==
    WindowsAt(content, RangeFrom(0, Len(content), chunk_size - OVERLAP), chunk_size)

chunk_generic(content, chunk_size) ==
    LET chunks == Windows(content, chunk_size)
    IN IF chunks # <<>> THEN chunks ELSE <<[text |-> content, type |-> "chunk"]>>

\* True when the newline at position i is followed by "## "
IsSplitPoint(s, i) ==
    /\ s[i] = "\n"
    /\ i + 3 <= Len(s)
    /\ s[i + 1] = "#" /\ s[i + 2] = "#" /\ s[i + 3] = " "

\* re.split(r'\n(?=## )', content)
RECURSIVE SplitSections(_, _)
SplitSections(s, i) ==
    LET points == {j \in i..Len(s) : IsSplitPoint(s, j)}
    IN IF points = {} THEN <<s>>
       ELSE LET j == CHOOSE n \in points : \A m \in points : n <= m
            IN <<SubSeq(s, 1, j - 1)>> \o SplitSections(SubSeq(s, j + 1, Len(s)), 1)

SectionChunks(section, chunk_size) ==
    IF Len(section) <= chunk_size
    THEN IF strip(section) # <<>>
         THEN <<[text |-> strip(section), type |-> "section"]>>
         ELSE <<>>
    ELSE Windows(section, chunk_size)

RECURSIVE AllSectionChunks(_, _)
AllSectionChunks(sections, chunk_size) ==
    IF sections = <<>> THEN <<>>
    ELSE SectionChunks(Head(sections), chunk_size)
            \o AllSectionChunks(Tail(sections), chunk_size)

chunk_markdown(content, chunk_size) ==
    LET chunks == AllSectionChunks(SplitSections(content, 1), chunk_size)
    IN IF chunks # <<>> THEN chunks
       ELSE <<[text |-> Slice(content, 0, chunk_size), type |-> "chunk"]>>

\* --------------------------------------------- line patterns of the chunkers
\* a pattern is a sequence of items: a literal, one-or-more or zero-or-more
\* characters of a class, an optional sub-pattern, or alternatives;
\* re_ends is the set of positions at which a match begun at a position of
\* S may end
SPACE_CHARS == {" ", "\t", "\r"}

Lit(s) == [kind |-> "lit", arg |-> s]
Plus(class) == [kind |-> "plus", arg |-> class]
Star(class) == [kind |-> "star", arg |-> class]
Opt(pattern) == [kind |-> "opt", arg |-> pattern]
Alt(patterns) == [kind |-> "alt", arg |-> patterns]

RECURSIVE re_ends(_, _, _)
RECURSIVE re_step(_, _, _)
re_step(item, line, S) ==
    CASE item.kind = "lit" ->
            {i + Len(item.arg) : i \in {j \in S : HasAt(line, j, item.arg)}}
      [] item.kind = "plus" ->
            {j \in 1..(Len(line) + 1) :
                \E i \in S : i < j /\ \A n \in i..(j - 1) : line[n] \in item.arg}
      [] item.kind = "star" ->
            {j \in 1..(Len(line) + 1) :
                \E i \in S : i <= j /\ \A n \in i..(j - 1) : line[n] \in item.arg}
      [] item.kind = "opt" -> S \cup re_ends(item.arg, line, S)
      [] item.kind = "alt" ->
            UNION {re_ends(item.arg[n], line, S) : n \in 1..Len(item.arg)}

re_ends(pattern, line, S) ==
    IF pattern = <<>> THEN S
    ELSE re_ends(Tail(pattern), line, re_step(Head(pattern), line, S))

\* re.match(pattern, line) is not None
re_match(pattern, line) == re_ends(pattern, line, {1}) # {}

\* match.group(1): the match is greedy, it ends at the last position
match_group(pattern, line) ==
    LET ends == re_ends(pattern, line, {1})
        end == CHOOSE e \in ends : \A x \in ends : x <= e
    IN SubSeq(line, 1, end - 1)

\* r'^((?:async\s+)?def\s+\w+|class\s+\w+)'
PYTHON_PATTERN ==
    <<Alt(<<
        <<Opt(<<Lit(<<"a", "s", "y", "n", "c">>), Plus(SPACE_CHARS)>>),
          Lit(<<"d", "e", "f">>), Plus(SPACE_CHARS), Plus(WORD_CHARS)>>,
        <<Lit(<<"c", "l", "a", "s", "s">>), Plus(SPACE_CHARS), Plus(WORD_CHARS)>>
      >>)>>

\* r'^((?:export\s+)?(?:async\s+)?(?:function\s+\w+|const\s+\w+\s*=|let\s+\w+\s*=|class\s+\w+))'
JAVASCRIPT_PATTERN ==
    <<Opt(<<Lit(<<"e", "x", "p", "o", "r", "t">>), Plus(SPACE_CHARS)>>),
      Opt(<<Lit(<<"a", "s", "y", "n", "c">>), Plus(SPACE_CHARS)>>),
      Alt(<<
        <<Lit(<<"f", "u", "n", "c", "t", "i", "o", "n">>), Plus(SPACE_CHARS),
          Plus(WORD_CHARS)>>,
        <<Lit(<<"c", "o", "n", "s", "t">>), Plus(SPACE_CHARS), Plus(WORD_CHARS),
          Star(SPACE_CHARS), Lit(<<"=">>)>>,
        <<Lit(<<"l", "e", "t">>), Plus(SPACE_CHARS), Plus(WORD_CHARS),
          Star(SPACE_CHARS), Lit(<<"=">>)>>,
        <<Lit(<<"c", "l", "a", "s", "s">>), Plus(SPACE_CHARS), Plus(WORD_CHARS)>>
      >>)>>

\* content.split('\n')
RECURSIVE split_lines(_)
split_lines(s) ==
    LET newlines == {i \in 1..Len(s) : s[i] = "\n"}
    IN IF newlines = {} THEN <<s>>
       ELSE LET i == CHOOSE n \in newlines : \A m \in newlines : n <= m
            IN <<SubSeq(s, 1, i - 1)>> \o split_lines(SubSeq(s, i + 1, Len(s)))

\* '\n'.join(lines)
RECURSIVE join_lines(_)
join_lines(lines) ==
    IF lines = <<>> THEN <<>>
    ELSE IF Len(lines) = 1 THEN lines[1]
    ELSE lines[1] \o <<"\n">> \o join_lines(Tail(lines))

\* "if current_chunk: text = '\n'.join(current_chunk).strip(); if text: ..."
flush_chunk(chunks, current_chunk, current_type) ==
    IF current_chunk # <<>> /\ strip(join_lines(current_chunk)) # <<>>
    THEN Append(chunks, [text |-> strip(join_lines(current_chunk)),
                         type |-> current_type])
    ELSE chunks

\* "function" if "def " in match.group(1) else "class"; chunk_javascript
\* calls every chunk a header opens a function
header_type(lang, line) ==
    IF lang = "python"
    THEN (IF Contains(match_group(PYTHON_PATTERN, line), <<"d", "e", "f", " ">>)
          THEN "function" ELSE "class")
    ELSE "function"

header_pattern(lang) == IF lang = "python" THEN PYTHON_PATTERN ELSE JAVASCRIPT_PATTERN

\* the loop "for line in lines" of chunk_python and chunk_javascript and the
\* flush of the last chunk
RECURSIVE by_headers(_, _, _, _, _)
by_headers(lines, lang, chunks, current_chunk, current_type) ==
    IF lines = <<>> THEN flush_chunk(chunks, current_chunk, current_type)
    ELSE IF re_match(header_pattern(lang), Head(lines))
    THEN by_headers(Tail(lines), lang,
                    flush_chunk(chunks, current_chunk, current_type),
                    <<Head(lines)>>, header_type(lang, Head(lines)))
    ELSE by_headers(Tail(lines), lang, chunks,
                    Append(current_chunk, Head(lines)), current_type)

\* the fallback "[content[i:i+chunk_size] for i in range(...) if ....strip()]":
\* the windows are not stripped
RECURSIVE RawWindowsAt(_, _, _)
RawWindowsAt(content, starts, chunk_size) ==
    IF starts = <<>> THEN <<>>
    ELSE LET w == Slice(content, Head(starts), Head(starts) + chunk_size)
             rest == RawWindowsAt(content, Tail(starts), chunk_size)
         IN IF strip(w) # <<>> THEN <<[text |-> w, type |-> "chunk"]>> \o rest
            ELSE rest

RawWindows(content, chunk_size) ==
    RawWindowsAt(content, RangeFrom(0, Len(content), chunk_size - OVERLAP), chunk_size)

chunk_python(content, chunk_size) ==
    LET chunks == by_headers(split_lines(content), "python", <<>>, <<>>, "module")
    IN IF chunks = <<>> THEN RawWindows(content, chunk_size) ELSE chunks

chunk_javascript(content, chunk_size) ==
    LET chunks == by_headers(split_lines(content), "javascript", <<>>, <<>>, "module")
    IN IF chunks = <<>> THEN RawWindows(content, chunk_size) ELSE chunks

\* ------------------------------------------------------------ environment
\* A path is kept in parts so that Path.suffix can be read off it.
HOME_MD == [dir |-> "/home/u/", name |-> "CLAUDE", ext |-> ".md"]
A_MD == [dir |-> "/proj/A/", name |-> "CLAUDE", ext |-> ".md"]
Files == {HOME_MD, A_MD}                   \* the files that may exist
Editable == {HOME_MD}                      \* the files the user edits
ProjectPaths == {"/proj/A", "/proj/B"}     \* PROJECT_PATH of the servers

PathStr(p) == p.dir \o p.name \o p.ext

BAD_BYTE == "<0xff>"                       \* a byte that is not valid UTF-8
T1 == <<"x">>
T2 == <<"x", "\n", "#", "#", " ", "y">>
BIN == <<BAD_BYTE>>
Contents == {T1, T2, BIN}

NoFile == [exists |-> FALSE, bytes |-> <<>>]
FileOf(c) == [exists |-> TRUE, bytes |-> c]

\* ----------------------------------------------------------- ScopeRouter
\* mcp_server.py
get_project_id(pp) == Prefix(Md5Hex(pp), 12)

\* mutant: the project id left out of the project location
get_db_path_shared(scope, pp) ==
    IF scope = SCOPE_GLOBAL
    THEN CHROMA_PATH \o "/global"
    ELSE CHROMA_PATH \o "/projects"

get_db_path(scope, pp) ==
    IF scope = SCOPE_GLOBAL
    THEN CHROMA_PATH \o "/global"
    ELSE CHROMA_PATH \o "/projects/" \o get_project_id(pp)

\* the partition a handler of the server with PROJECT_PATH pp works on
Partition(scope, pp) == [path |-> get_db_path(scope, pp), name |-> "memories"]

scopes_for(scope) ==
    IF scope = SCOPE_ALL THEN <<SCOPE_PROJECT, SCOPE_GLOBAL>>
    ELSE IF scope = SCOPE_GLOBAL THEN <<SCOPE_GLOBAL>>
    ELSE <<SCOPE_PROJECT>>

\* web_ui.py
web_get_project_id(pp) == Prefix(Sha256Hex(pp), 12)

web_get_db_path(scope, pp) ==
    IF scope = "global"
    THEN CHROMA_PATH \o "/global"
    ELSE CHROMA_PATH \o "/" \o web_get_project_id(pp)

WebPartition(scope, pp) == [path |-> web_get_db_path(scope, pp), name |-> "memories"]

\* rag_tui.py: one database at CHROMA_PATH, one collection per scope
PyHashMod(x) == "hash(" \o x \o ")%10**8"

TuiPartition(scope, pp) ==
    [path |-> CHROMA_PATH,
     name |-> IF scope = "project"
              THEN "claude_rag_" \o scope \o "_" \o PyHashMod(pp)
              ELSE "claude_rag_" \o scope]

\* ------------------------------------------------------ ContentAddressing
SUPPORTED_EXTENSIONS ==
    [e \in {".md", ".txt"} |-> IF e = ".md" THEN "markdown" ELSE "text"]

file_type_of(p) ==
    IF p.ext \in DOMAIN SUPPORTED_EXTENSIONS THEN SUPPORTED_EXTENSIONS[p.ext] ELSE "text"

\* the exception a call of chunk_content leaves with, "" when it returns:
\* range() raises where a chunker reaches its window loop with a zero step
chunk_content_raises(content, file_type, chunk_size) ==
    IF ~range_raises(chunk_size) THEN ""
    ELSE IF file_type = "markdown"
    THEN (IF \E n \in 1..Len(SplitSections(content, 1)) :
                Len(SplitSections(content, 1)[n]) > chunk_size
          THEN "ValueError" ELSE "")
    ELSE IF file_type = "python"
    THEN (IF by_headers(split_lines(content), "python", <<>>, <<>>, "module") = <<>>
          THEN "ValueError" ELSE "")
    ELSE IF file_type \in {"javascript", "typescript"}
    THEN (IF by_headers(split_lines(content), "javascript", <<>>, <<>>, "module") = <<>>
          THEN "ValueError" ELSE "")
    ELSE "ValueError"

chunk_content(content, file_type, chunk_size) ==
    IF file_type = "markdown" THEN chunk_markdown(content, chunk_size)
    ELSE IF file_type = "python" THEN chunk_python(content, chunk_size)
    ELSE IF file_type \in {"javascript", "typescript"}
    THEN chunk_javascript(content, chunk_size)
    ELSE chunk_generic(content, chunk_size)

get_file_hash(bytes) == Sha256Hex(Str(bytes))

generate_chunk_id(content, source, chunk_index) ==
    Prefix(Md5Hex(source), 8) \o "_" \o ToString(chunk_index)
        \o "_" \o Prefix(Sha256Hex(Str(content)), 16)

\* the positional identifier of rag_index
index_chunk_id(source, chunk_index) ==
    Prefix(Md5Hex(source), 8) \o "_" \o ToString(chunk_index)

Decodable(bytes) == \A i \in 1..Len(bytes) : bytes[i] # BAD_BYTE

\* ------------------------------------------------- vector-store boundary
EmptyColl == [i \in {} |-> 0]

Get(meta, key, default) == IF key \in DOMAIN meta THEN meta[key] ELSE default

upsert(coll, id, row) ==
    [i \in DOMAIN coll \cup {id} |-> IF i = id THEN row ELSE coll[i]]

delete(coll, ids) == [i \in DOMAIN coll \ ids |-> coll[i]]

get_where(coll, key, value) ==
    {i \in DOMAIN coll : key \in DOMAIN coll[i].meta /\ coll[i].meta[key] = value}

\* get_collection: PersistentClient + get_or_create_collection
with_collection(d, loc) == IF loc \in DOMAIN d THEN d ELSE d @@ (loc :> EmptyColl)

\* ---------------------------------------------------- persisted sync state
NoSyncFile == [exists |-> FALSE, complete |-> FALSE, table |-> EmptyColl]

get_sync_state(f) == IF f.exists /\ f.complete THEN f.table ELSE EmptyColl

state_key(scope, filepath) == scope \o ":" \o PathStr(filepath)

stored_hash_of(sync_state, key) ==
    IF key \in DOMAIN sync_state THEN sync_state[key].hash ELSE "None"

save_sync_state(state) == [exists |-> TRUE, complete |-> TRUE, table |-> state]

\* ------------------------------------------------------------------ state
VARIABLES
    fs,        \* the file system: path -> [exists, bytes]
    db,        \* the vector store: partition -> (row id -> row)
    syncFile,  \* sync_state.json
    last,      \* the last tool call: its arguments and what it returned
    hist,      \* history: <<partition, path>> -> never | synced | edited | resynced
    torn,      \* history: <<partition, path>> whose re-index was cut short
    steps,     \* tool calls and file edits so far
    reads,     \* searches and listings so far
    faults,    \* tool calls cut short by a failing service so far
    stores,    \* rag_store calls so far (stands for time.time() in its id)
    pc,        \* server process -> where its rag_sync stands (step-wise runs)
    mem,       \* server process -> the sync_state dict it is about to save
    pre,       \* server process -> the table it loaded at the start of its batch
    trunc,     \* the process whose open(.., 'w') emptied the file last, 0 once
               \* a dump has completed
    run,       \* history: server process -> the paths of its present or
               \* latest rag_sync and whether it ran while another one did
    sessions,  \* the session files of Claude Code, newest first
    cap,       \* the last rag_capture: its arguments, what the parser made
               \* of the sessions and what the call returned
    clock,     \* datetime.now()
    chunked,   \* the last call of chunk_content: its arguments and its result
    synced,    \* history: the files, by absolute path, a completed rag_sync
               \* recorded in the sync state
    backup,    \* the backup file rag_backup wrote last
    restored   \* the last rag_restore: its arguments, the partitions before
               \* it and what it counted

ioVars == <<pc, mem, pre, trunc, run>>
capVars == <<sessions, cap, clock>>
chunkVars == <<chunked>>
pathVars == <<synced>>
bakVars == <<backup, restored>>
vars == <<fs, db, syncFile, last, hist, torn, steps, reads, faults, stores,
          pc, mem, pre, trunc, run, sessions, cap, clock, chunked, synced,
          backup, restored>>

NoPath == [dir |-> "", name |-> "", ext |-> ""]

NoCall ==
    [op |-> "none", pp |-> "", scope |-> "", paths |-> <<>>, force |-> FALSE,
     confirm |-> FALSE, target |-> "", err |-> "", failed |-> NoPath,
     updated |-> <<>>, skipped |-> <<>>, not_found |-> <<>>,
     touched |-> {}, candidates |-> {}, results |-> {}]

Range(seq) == {seq[i] : i \in 1..Len(seq)}

path_exists(fsys, p) == p \in DOMAIN fsys /\ fsys[p].exists

\* ------------------------------------------------------------- SyncEngine
\* the writer of a row is history, not data: no handler reads it
sync_row(chunk, i, filepath, file_type, current_hash, writer) ==
    [doc |-> chunk.text,
     meta |-> [source |-> "file:" \o PathStr(filepath),
               file_type |-> file_type,
               memory_type |-> "context",
               chunk_index |-> ToString(i),
               file_hash |-> Prefix(current_hash, 16)],
     by |-> writer]

\* the loop "for i, chunk in enumerate(chunks)" cut after n chunks
RECURSIVE upsert_chunks(_, _, _, _, _, _, _)
upsert_chunks(coll, chunks, n, filepath, file_type, current_hash, writer) ==
    IF n = 0 THEN coll
    ELSE upsert(
            upsert_chunks(coll, chunks, n - 1, filepath, file_type, current_hash, writer),
            generate_chunk_id(chunks[n].text, PathStr(filepath), n - 1),
            sync_row(chunks[n], n - 1, filepath, file_type, current_hash, writer))

\* mutant: the force flag read the wrong way round
is_unchanged_inverted(force, current_hash, stored_hash) ==
    force /\ current_hash = stored_hash

\* "if not force and current_hash == stored_hash"
is_unchanged(force, current_hash, stored_hash) ==
    ~force /\ current_hash = stored_hash

\* mutant: the rows rag_index wrote for the file are taken for old chunks too
delete_old_chunks_any_source(coll, filepath) ==
    delete(coll, get_where(coll, "source", "file:" \o PathStr(filepath))
                    \cup get_where(coll, "source", PathStr(filepath)))

\* "Delete old chunks for this file (clean reindex)"
delete_old_chunks(coll, filepath) ==
    delete(coll, get_where(coll, "source", "file:" \o PathStr(filepath)))

\* the body of "for filepath in paths" from the deletion on; failAt is the
\* number, within this tool call, of the get_embedding/upsert pair that
\* raises (0: none does)
reindex_path(acc, filepath, scope, fsys, failAt, writer) ==
    LET current_hash == get_file_hash(fsys[filepath].bytes)
        coll1 == delete_old_chunks(acc.coll, filepath)
        file_type == file_type_of(filepath)
        chunks == chunk_content(fsys[filepath].bytes, file_type, CHUNK_SIZE)
        fails == failAt \in (acc.embeds + 1)..(acc.embeds + Len(chunks))
        n == IF fails THEN failAt - acc.embeds - 1 ELSE Len(chunks)
        coll2 == upsert_chunks(coll1, chunks, n, filepath, file_type, current_hash, writer)
        touched == acc.touched \cup {filepath}
    IN IF ~Decodable(fsys[filepath].bytes)
       THEN [acc EXCEPT !.coll = coll1, !.touched = touched,
                        !.err = "UnicodeDecodeError", !.failed = filepath]
       ELSE IF fails
       THEN [acc EXCEPT !.coll = coll2, !.touched = touched,
                        !.embeds = failAt,
                        !.err = "ConnectionError", !.failed = filepath]
       ELSE [acc EXCEPT !.coll = coll2, !.touched = touched,
                        !.embeds = acc.embeds + Len(chunks),
                        !.state = (state_key(scope, filepath) :>
                                      [hash |-> current_hash, chunks |-> Len(chunks)])
                                  @@ acc.state,
                        !.updated = Append(acc.updated, filepath)]

sync_path(acc, filepath, scope, force, fsys, failAt, writer) ==
    IF ~path_exists(fsys, filepath)
    THEN [acc EXCEPT !.not_found = Append(acc.not_found, filepath)]
    ELSE IF is_unchanged(force, get_file_hash(fsys[filepath].bytes),
                         stored_hash_of(acc.state, state_key(scope, filepath)))
    THEN [acc EXCEPT !.skipped = Append(acc.skipped, filepath)]
    ELSE reindex_path(acc, filepath, scope, fsys, failAt, writer)

\* the for loop; an exception leaves it at once
RECURSIVE sync_loop(_, _, _, _, _, _, _)
sync_loop(acc, paths, scope, force, fsys, failAt, writer) ==
    IF paths = <<>> \/ acc.err # "" THEN acc
    ELSE sync_loop(sync_path(acc, Head(paths), scope, force, fsys, failAt, writer),
                   Tail(paths), scope, force, fsys, failAt, writer)

\* "Default paths if not specified"
sync_paths(paths, pp) ==
    IF paths = <<>>
    THEN <<HOME_MD, [dir |-> pp \o "/", name |-> "CLAUDE", ext |-> ".md"]>>
    ELSE paths

\* ---------------------------------------------------------------- history
WriteScopes == {SCOPE_PROJECT, SCOPE_GLOBAL}
ReadScopes == {SCOPE_PROJECT, SCOPE_GLOBAL, SCOPE_ALL}
Partitions == {Partition(s, pp) : s \in WriteScopes, pp \in ProjectPaths}

hist_after_sync(h, loc, synced_paths) ==
    [k \in DOMAIN h |->
        IF k[1] = loc /\ k[2] \in synced_paths
        THEN (IF h[k] \in {"edited", "resynced"} THEN "resynced" ELSE "synced")
        ELSE h[k]]

hist_after_edit(h, p) ==
    [k \in DOMAIN h |->
        IF k[2] = p /\ h[k] # "never" THEN "edited" ELSE h[k]]

\* ---------------------------------------------------------------- actions
\* the server processes that share CHROMA_PATH, and their PROJECT_PATH
Procs == {1, 2}
project_of(q) == IF q = 1 THEN "/proj/A" ELSE "/proj/B"

NoChunking == [op |-> "none", content |-> <<>>, file_type |-> "", chunk_size |-> 0,
               chunks |-> <<>>, err |-> ""]

\* no backup file yet; no rag_restore yet
NoBackup == [exists |-> FALSE, scope |-> "", project_path |-> "", collections |-> <<>>]

NoRestore ==
    [op |-> "none", pp |-> "", mode |-> "", scope |-> "", before |-> <<>>,
     total_restored |-> 0, total_skipped |-> 0, counts |-> <<>>]

SESSION_1 == "/home/u/.claude/projects/p/s1.jsonl"
SESSION_2 == "/home/u/.claude/projects/p/s2.jsonl"

NoCapture ==
    [op |-> "none", pp |-> "", scope |-> "", max_sessions |-> 0,
     min_confidence |-> 0, dry_run |-> FALSE, err |-> "", parse_err |-> "",
     parsed |-> <<>>, seen |-> <<>>, captured |-> <<>>, skipped |-> 0,
     files |-> <<>>]

Init ==
    /\ fs = (HOME_MD :> FileOf(T2)) @@ (A_MD :> FileOf(T1))
    /\ db = [l \in {} |-> EmptyColl]
    /\ syncFile = NoSyncFile
    /\ last = NoCall
    /\ hist = [k \in Partitions \X Files |-> "never"]
    /\ torn = {}
    /\ steps = 0
    /\ reads = 0
    /\ faults = 0
    /\ stores = 0
    /\ pc = [q \in Procs |-> "idle"]
    /\ mem = [q \in Procs |-> EmptyColl]
    /\ pre = [q \in Procs |-> EmptyColl]
    /\ trunc = 0
    /\ run = [q \in Procs |-> [paths |-> {}, conc |-> FALSE]]
    /\ sessions = <<[path |-> SESSION_1, lines |-> <<>>],
                    [path |-> SESSION_2, lines |-> <<>>]>>
    /\ cap = NoCapture
    /\ clock = 0
    /\ chunked = NoChunking
    /\ synced = {}
    /\ backup = NoBackup
    /\ restored = NoRestore

\* the user writes, rewrites or removes a file
EditFile(p, f) ==
    /\ steps < MaxSteps
    /\ f # fs[p]
    /\ fs' = [fs EXCEPT ![p] = f]
    /\ hist' = hist_after_edit(hist, p)
    /\ steps' = steps + 1
    /\ last' = [NoCall EXCEPT !.op = "edit"]
    /\ UNCHANGED <<db, syncFile, torn, reads, faults, stores>>

\* rag_sync of the server whose PROJECT_PATH is pp
RagSync(pp, scope, paths, force, failAt) ==
    /\ steps < MaxSteps
    /\ \E loc \in {Partition(scope, pp)}, ps \in {sync_paths(paths, pp)} :
       \E d1 \in {with_collection(db, loc)} :
       \E acc \in {sync_loop([coll |-> d1[loc], state |-> get_sync_state(syncFile),
                              updated |-> <<>>, skipped |-> <<>>, not_found |-> <<>>,
                              err |-> "", failed |-> NoPath, embeds |-> 0,
                              touched |-> {}],
                             ps, scope, force, fs, failAt,
                             [pp |-> pp, scope |-> scope])} :
          /\ failAt = 0 \/ (acc.err = "ConnectionError" /\ faults < MaxFaults)
          /\ faults' = IF failAt = 0 THEN faults ELSE faults + 1
          /\ db' = [d1 EXCEPT ![loc] = acc.coll]
          /\ syncFile' = IF acc.err = "" THEN save_sync_state(acc.state) ELSE syncFile
          /\ hist' = IF acc.err = ""
                     THEN hist_after_sync(hist, loc, {p \in Range(ps) : path_exists(fs, p)})
                     ELSE hist
          /\ torn' = (torn \ {<<loc, p>> : p \in Range(acc.updated)})
                        \cup (IF acc.err = "" THEN {} ELSE {<<loc, acc.failed>>})
          /\ last' = [NoCall EXCEPT
                        !.op = "rag_sync", !.pp = pp, !.scope = scope,
                        !.paths = ps, !.force = force,
                        !.err = acc.err, !.failed = acc.failed,
                        !.updated = IF acc.err = "" THEN acc.updated ELSE <<>>,
                        !.skipped = IF acc.err = "" THEN acc.skipped ELSE <<>>,
                        !.not_found = IF acc.err = "" THEN acc.not_found ELSE <<>>,
                        !.touched = acc.touched]
    /\ steps' = steps + 1
    /\ UNCHANGED <<fs, reads, stores>>

\* ------------------------------------------------------- rag_index
HOME_DIR == [dir |-> "/home/u/", name |-> "", ext |-> ""]

\* "if path.is_dir(): ... path.glob(**/*ext) ... else: files = [path]"
RECURSIVE seq_of(_)
seq_of(S) == IF S = {} THEN <<>>
             ELSE LET e == CHOOSE e \in S : TRUE IN <<e>> \o seq_of(S \ {e})

index_files(fsys, path) ==
    IF path \in DOMAIN fsys THEN <<path>>
    ELSE seq_of({f \in DOMAIN fsys :
                    f.dir = path.dir /\ fsys[f].exists /\ f.ext \in DOMAIN SUPPORTED_EXTENSIONS})

index_path_exists(fsys, path) ==
    IF path \in DOMAIN fsys THEN fsys[path].exists ELSE path = HOME_DIR

index_row(chunk, i, filepath, file_type, content, writer) ==
    [doc |-> chunk.text,
     meta |-> [source |-> PathStr(filepath),
               file_type |-> file_type,
               file_hash |-> Prefix(Md5Hex(Str(content)), 8),
               chunk_index |-> i,
               chunk_type |-> chunk.type],
     by |-> writer]

\* collection.upsert(ids=[doc_id_0 .. doc_id_n-1], ...)
RECURSIVE upsert_indexed(_, _, _, _, _, _, _)
upsert_indexed(coll, chunks, n, filepath, file_type, content, writer) ==
    IF n = 0 THEN coll
    ELSE upsert(
            upsert_indexed(coll, chunks, n - 1, filepath, file_type, content, writer),
            index_chunk_id(PathStr(filepath), n - 1),
            index_row(chunks[n], n - 1, filepath, file_type, content, writer))

\* the body of "for filepath in files"; the embeddings of all chunks of a
\* file are computed before its upsert
index_file(acc, filepath, fsys, fail, writer) ==
    LET content == fsys[filepath].bytes
        file_type == file_type_of(filepath)
        chunks == chunk_content(content, file_type, CHUNK_SIZE)
    IN IF ~Decodable(content) THEN acc
       ELSE IF fail /\ acc.embeds = 0
       THEN [acc EXCEPT !.err = "ConnectionError", !.embeds = 1]
       ELSE [acc EXCEPT
                !.coll = upsert_indexed(acc.coll, chunks, Len(chunks), filepath,
                                        file_type, content, writer),
                !.embeds = acc.embeds + Len(chunks),
                !.indexed = Append(acc.indexed, filepath)]

RECURSIVE index_loop(_, _, _, _, _)
index_loop(acc, files, fsys, fail, writer) ==
    IF files = <<>> \/ acc.err # "" THEN acc
    ELSE index_loop(index_file(acc, Head(files), fsys, fail, writer),
                    Tail(files), fsys, fail, writer)

RagIndex(pp, scope, path, fail) ==
    /\ steps < MaxSteps
    /\ steps' = steps + 1
    /\ UNCHANGED <<fs, syncFile, hist, torn, reads, stores>>
    /\ IF ~index_path_exists(fs, path)
       THEN /\ ~fail
            /\ last' = [NoCall EXCEPT !.op = "rag_index", !.pp = pp, !.scope = scope,
                                      !.err = "Path not found"]
            /\ UNCHANGED <<db, faults>>
       ELSE \E loc \in {Partition(scope, pp)} :
            \E d1 \in {with_collection(db, loc)} :
            \E acc \in {index_loop([coll |-> d1[loc], indexed |-> <<>>, err |-> "",
                                    embeds |-> 0],
                                   index_files(fs, path), fs, fail,
                                   [pp |-> pp, scope |-> scope])} :
               /\ fail => (acc.err = "ConnectionError" /\ faults < MaxFaults)
               /\ faults' = IF fail THEN faults + 1 ELSE faults
               /\ db' = [d1 EXCEPT ![loc] = acc.coll]
               /\ last' = [NoCall EXCEPT
                             !.op = "rag_index", !.pp = pp, !.scope = scope,
                             !.paths = index_files(fs, path), !.err = acc.err,
                             !.updated = IF acc.err = "" THEN acc.indexed ELSE <<>>]

\* ------------------------------------------------------- rag_store
store_id(content, now) == Prefix(Md5Hex(Str(content) \o ToString(now)), 12)

RagStore(pp, scope, content, memory_type, fail) ==
    /\ steps < MaxSteps
    /\ stores < MaxStores
    /\ steps' = steps + 1
    /\ stores' = stores + 1
    /\ UNCHANGED <<fs, syncFile, hist, torn, reads>>
    /\ IF content = <<>>
       THEN /\ ~fail
            /\ last' = [NoCall EXCEPT !.op = "rag_store", !.pp = pp, !.scope = scope,
                                      !.err = "content is required"]
            /\ UNCHANGED <<db, faults>>
       ELSE \E loc \in {Partition(scope, pp)} :
            \E d1 \in {with_collection(db, loc)} :
               /\ fail => faults < MaxFaults
               /\ faults' = IF fail THEN faults + 1 ELSE faults
               /\ db' = IF fail THEN d1
                        ELSE [d1 EXCEPT ![loc] =
                                upsert(d1[loc], store_id(content, stores),
                                       [doc |-> content,
                                        meta |-> [source |-> "manual",
                                                  memory_type |-> memory_type,
                                                  tags |-> ""],
                                        by |-> [pp |-> pp, scope |-> scope]])]
               /\ last' = [NoCall EXCEPT
                             !.op = "rag_store", !.pp = pp, !.scope = scope,
                             !.target = IF fail THEN "" ELSE store_id(content, stores),
                             !.err = IF fail THEN "ConnectionError" ELSE ""]

\* ------------------------------------------------------- rag_forget
\* collection.query(n_results=n): some n nearest rows, all rows when fewer
nearest(ids, n) == {S \in SUBSET ids : Cardinality(S) = Min(n, Cardinality(ids))}

\* "if memory_id: collection.delete(ids=[memory_id])"
forget_by_id(coll, memory_id, confirm) == delete(coll, {memory_id})

\* "if not confirm: preview ... else collection.delete(ids=ids_to_delete)"
forget_by_query(coll, ids_to_delete, confirm) ==
    IF ~confirm THEN coll ELSE delete(coll, ids_to_delete)

RagForget(pp, scope, query, memory_id, confirm, fail) ==
    /\ steps < MaxSteps
    /\ steps' = steps + 1
    /\ UNCHANGED <<fs, syncFile, hist, torn, reads, stores>>
    /\ IF query = "" /\ memory_id = ""
       THEN /\ ~fail
            /\ last' = [NoCall EXCEPT !.op = "rag_forget", !.pp = pp, !.scope = scope,
                                      !.confirm = confirm,
                                      !.err = "either 'query' or 'memory_id' is required"]
            /\ UNCHANGED <<db, faults>>
       ELSE \E loc \in {Partition(scope, pp)} :
            \E d1 \in {with_collection(db, loc)} :
            IF memory_id # ""
            THEN /\ ~fail
                 /\ db' = [d1 EXCEPT ![loc] = forget_by_id(d1[loc], memory_id, confirm)]
                 /\ last' = [NoCall EXCEPT !.op = "rag_forget", !.pp = pp,
                                           !.scope = scope, !.confirm = confirm,
                                           !.target = memory_id,
                                           !.results = {<<loc, memory_id>>}]
                 /\ UNCHANGED faults
            ELSE /\ fail => faults < MaxFaults
                 /\ faults' = IF fail THEN faults + 1 ELSE faults
                 /\ \E ids \in nearest(DOMAIN d1[loc], FORGET_N) :
                       /\ db' = IF fail THEN d1
                                ELSE [d1 EXCEPT ![loc] =
                                        forget_by_query(d1[loc], ids, confirm)]
                       /\ last' = [NoCall EXCEPT
                                     !.op = "rag_forget", !.pp = pp, !.scope = scope,
                                     !.confirm = confirm,
                                     !.err = IF fail THEN "ConnectionError" ELSE "",
                                     !.results = IF fail THEN {}
                                                 ELSE {<<loc, id>> : id \in ids}]

\* ------------------------------------------------- rag_search, rag_list
\* the partitions of get_collections_for_scope(scope), created when absent
RECURSIVE with_collections(_, _)
with_collections(d, locs) ==
    IF locs = <<>> THEN d
    ELSE with_collections(with_collection(d, Head(locs)), Tail(locs))

partitions_for(scope, pp) ==
    [i \in 1..Len(scopes_for(scope)) |-> Partition(scopes_for(scope)[i], pp)]

\* where={"memory_type": memory_type}, or no filter when memory_type is ""
matches_type(meta, memory_type) ==
    memory_type = "" \/ Get(meta, "memory_type", "") = memory_type

\* "source_filter.lower() in source.lower()" for the sources of this model:
\* a path, "file:" and a path, or "manual"
source_contains(source, source_filter) ==
    \/ source_filter = ""
    \/ source = source_filter
    \/ source = "file:" \o source_filter

search_candidates(d, locs, memory_type) ==
    {r \in UNION {{<<l, id>> : id \in DOMAIN d[l]} : l \in Range(locs)} :
        matches_type(d[r[1]][r[2]].meta, memory_type)}

list_candidates(d, locs, memory_type, source_filter) ==
    {r \in UNION {{<<l, id>> : id \in DOMAIN d[l]} : l \in Range(locs)} :
        /\ ~(memory_type # "" /\ Get(d[r[1]][r[2]].meta, "memory_type", "None") # memory_type)
        /\ source_contains(Get(d[r[1]][r[2]].meta, "source", ""), source_filter)}

RagSearch(pp, scope, n_results, memory_type, fail) ==
    /\ steps < MaxSteps
    /\ reads < MaxReads
    /\ steps' = steps + 1
    /\ reads' = reads + 1
    /\ UNCHANGED <<fs, syncFile, hist, torn, stores>>
    /\ fail => faults < MaxFaults
    /\ faults' = IF fail THEN faults + 1 ELSE faults
    /\ IF fail
       THEN /\ last' = [NoCall EXCEPT !.op = "rag_search", !.pp = pp, !.scope = scope,
                                      !.target = memory_type,
                                      !.err = "ConnectionError"]
            /\ UNCHANGED db
       ELSE \E locs \in {partitions_for(scope, pp)} :
            \E d1 \in {with_collections(db, locs)} :
            \E cands \in {search_candidates(d1, locs, memory_type)} :
            \E top \in nearest(cands, n_results) :
               /\ db' = d1
               /\ last' = [NoCall EXCEPT !.op = "rag_search", !.pp = pp,
                                         !.scope = scope, !.target = memory_type,
                                         !.candidates = cands, !.results = top]

RagList(pp, scope, memory_type, source_filter, limit) ==
    /\ steps < MaxSteps
    /\ reads < MaxReads
    /\ steps' = steps + 1
    /\ reads' = reads + 1
    /\ UNCHANGED <<fs, syncFile, hist, torn, stores, faults>>
    /\ \E locs \in {partitions_for(scope, pp)} :
       \E d1 \in {with_collections(db, locs)} :
       \E cands \in {list_candidates(d1, locs, memory_type, source_filter)} :
       \E shown \in nearest(cands, limit) :
          /\ db' = d1
          /\ last' = [NoCall EXCEPT !.op = "rag_list", !.pp = pp, !.scope = scope,
                                    !.target = memory_type,
                                    !.candidates = cands, !.results = shown]

\* ------------------------------------------------------------ front ends
\* get_all_memories of web_ui.py and the listing of rag_tui.py: the rows of
\* the partitions the front end resolves; a partition that is not there
\* gives no rows
front_partition(front, scope, pp) ==
    IF front = "web" THEN WebPartition(scope, pp) ELSE TuiPartition(scope, pp)

front_rows(d, front, scope, pp) ==
    UNION {IF front_partition(front, s, pp) \in DOMAIN d
           THEN {<<front_partition(front, s, pp), id>> :
                    id \in DOMAIN d[front_partition(front, s, pp)]}
           ELSE {} : s \in Range(scopes_for(scope))}

FrontEndList(front, pp, scope) ==
    /\ steps < MaxSteps
    /\ reads < MaxReads
    /\ steps' = steps + 1
    /\ reads' = reads + 1
    /\ last' = [NoCall EXCEPT !.op = front \o "_list", !.pp = pp, !.scope = scope,
                              !.candidates = front_rows(db, front, scope, pp),
                              !.results = front_rows(db, front, scope, pp)]
    /\ UNCHANGED <<fs, db, syncFile, hist, torn, stores, faults>>

MaxFail == 3           \* latest embedding call of a tool call that may fail

Batches == {<<>>, <<HOME_MD>>}

Next ==
    \/ \E p \in Editable, f \in {NoFile} \cup {FileOf(c) : c \in Contents} :
            EditFile(p, f) /\ UNCHANGED <<ioVars, capVars, chunkVars, pathVars, bakVars>>
    \/ \E pp \in ProjectPaths, scope \in WriteScopes, paths \in Batches,
          force \in BOOLEAN, failAt \in 0..MaxFail :
            /\ RagSync(pp, scope, paths, force, failAt)
            /\ UNCHANGED <<ioVars, capVars, chunkVars, pathVars, bakVars>>

Spec == Init /\ [][Next]_vars

\* the memory operations: indexing, storing, forgetting, searching, listing
Callers == {<<"/proj/A", SCOPE_PROJECT>>, <<"/proj/B", SCOPE_PROJECT>>,
            <<"/proj/A", SCOPE_GLOBAL>>}
NOTE == <<"n">>
AnyId == {"no-such-id"} \cup UNION {DOMAIN db[l] : l \in DOMAIN db}

MemStep ==
    \/ \E f \in {FileOf(T1), FileOf(T2), FileOf(BIN)} : EditFile(HOME_MD, f)
    \/ \E c \in Callers : RagSync(c[1], c[2], <<HOME_MD>>, FALSE, 0)
    \/ \E c \in Callers, path \in {HOME_MD, HOME_DIR}, fail \in BOOLEAN :
            RagIndex(c[1], c[2], path, fail)
    \/ \E c \in Callers, content \in {NOTE, <<>>}, fail \in BOOLEAN :
            RagStore(c[1], c[2], content, "decision", fail)
    \/ \E c \in Callers, confirm \in BOOLEAN, fail \in BOOLEAN :
            RagForget(c[1], c[2], "q", "", confirm, fail)
    \/ \E c \in Callers, id \in AnyId \cup {""}, confirm \in BOOLEAN :
            RagForget(c[1], c[2], "", id, confirm, FALSE)
    \/ \E pp \in ProjectPaths, scope \in ReadScopes, memory_type \in {"", "context"},
          fail \in BOOLEAN :
            RagSearch(pp, scope, 1, memory_type, fail)
    \/ \E pp \in ProjectPaths, scope \in ReadScopes, memory_type \in {"", "context"},
          source_filter \in {"", PathStr(HOME_MD)}, limit \in {1, 20} :
            RagList(pp, scope, memory_type, source_filter, limit)
    \/ \E front \in {"web", "tui"}, pp \in ProjectPaths, scope \in ReadScopes :
            FrontEndList(front, pp, scope)

NextMem ==
    /\ steps < MaxMemSteps
    /\ MemStep
    /\ UNCHANGED <<ioVars, capVars, chunkVars, pathVars, bakVars>>

SpecMem == Init /\ [][NextMem]_vars

\* the server processes other than q that are inside a rag_sync
in_progress(pcs, q) == {r \in Procs \ {q} : pcs[r] \in {"save", "dump"}}

\* rag_sync step by step, as the other server processes and a crash see it:
\* the batch up to the save; open(SYNC_STATE_FILE, 'w'); json.dump and close.
\* hist and torn are history of whole calls and are not kept here.
IOBegin(q, scope, paths, force) ==
    /\ steps < MaxIOCalls
    /\ pc[q] \in {"idle", "done", "crashed"}
    /\ steps' = steps + 1
    /\ \E loc \in {Partition(scope, project_of(q))},
          ps \in {sync_paths(paths, project_of(q))} :
       \E d1 \in {with_collection(db, loc)} :
       \E acc \in {sync_loop([coll |-> d1[loc], state |-> get_sync_state(syncFile),
                              updated |-> <<>>, skipped |-> <<>>, not_found |-> <<>>,
                              err |-> "", failed |-> NoPath, embeds |-> 0,
                              touched |-> {}],
                             ps, scope, force, fs, 0,
                             [pp |-> project_of(q), scope |-> scope])} :
          /\ db' = [d1 EXCEPT ![loc] = acc.coll]
          /\ pc' = [pc EXCEPT ![q] = IF acc.err = "" THEN "save" ELSE "idle"]
          /\ mem' = [mem EXCEPT ![q] = acc.state]
          /\ pre' = [pre EXCEPT ![q] = get_sync_state(syncFile)]
          /\ run' = [r \in Procs |->
                        IF r = q
                        THEN [paths |-> Range(ps), conc |-> in_progress(pc, q) # {}]
                        ELSE IF r \in in_progress(pc, q)
                        THEN [run[r] EXCEPT !.conc = TRUE]
                        ELSE run[r]]
          /\ last' = [NoCall EXCEPT
                        !.op = "rag_sync", !.pp = project_of(q), !.scope = scope,
                        !.paths = ps, !.force = force,
                        !.err = acc.err, !.failed = acc.failed,
                        !.updated = IF acc.err = "" THEN acc.updated ELSE <<>>,
                        !.skipped = IF acc.err = "" THEN acc.skipped ELSE <<>>,
                        !.not_found = IF acc.err = "" THEN acc.not_found ELSE <<>>,
                        !.touched = acc.touched]
    /\ UNCHANGED <<fs, syncFile, hist, torn, reads, faults, stores, trunc, capVars,
                   chunkVars, pathVars, bakVars>>

\* with open(SYNC_STATE_FILE, 'w') as f: the file is emptied
IOOpen(q) ==
    /\ pc[q] = "save"
    /\ pc' = [pc EXCEPT ![q] = "dump"]
    /\ syncFile' = [exists |-> TRUE, complete |-> FALSE, table |-> EmptyColl]
    /\ trunc' = q
    /\ UNCHANGED <<fs, db, last, hist, torn, steps, reads, faults, stores, mem, pre,
                   run, capVars, chunkVars, pathVars, bakVars>>

\* json.dump(state, f, indent=2) and the close that flushes it
IODump(q) ==
    /\ pc[q] = "dump"
    /\ pc' = [pc EXCEPT ![q] = "done"]
    /\ syncFile' = save_sync_state(mem[q])
    /\ trunc' = 0
    /\ UNCHANGED <<fs, db, last, hist, torn, steps, reads, faults, stores, mem, pre,
                   run, capVars, chunkVars, pathVars, bakVars>>

\* the server process is killed while it saves
IOCrash(q) ==
    /\ pc[q] \in {"save", "dump"}
    /\ pc' = [pc EXCEPT ![q] = "crashed"]
    /\ UNCHANGED <<fs, db, syncFile, last, hist, torn, steps, reads, faults, stores,
                   mem, pre, trunc, run, capVars, chunkVars, pathVars, bakVars>>

IOEdit(p, f) ==
    /\ steps < MaxIOCalls
    /\ EditFile(p, f)
    /\ UNCHANGED <<ioVars, capVars, chunkVars, pathVars, bakVars>>

IOBatches == Batches \cup {<<A_MD>>}

NextIO ==
    \/ \E f \in {FileOf(T1), FileOf(T2), FileOf(BIN)} : IOEdit(HOME_MD, f)
    \/ \E q \in Procs, scope \in WriteScopes, paths \in IOBatches, force \in BOOLEAN :
            IOBegin(q, scope, paths, force)
    \/ \E q \in Procs : IOOpen(q)
    \/ \E q \in Procs : IODump(q)
    \/ \E q \in Procs : IOCrash(q)

SpecIO == Init /\ [][NextIO]_vars

\* ------------------------------------------------ path spellings, rag_export
\* A path is given to a tool as a string; the operating system resolves it
\* against the working directory of the server, which is its PROJECT_PATH
\* (PROJECT_PATH defaults to os.getcwd()).
HOME == "/home/u"
REL_MD == [dir |-> "", name |-> "CLAUDE", ext |-> ".md"]        \* "CLAUDE.md"
TILDE_MD == [dir |-> "~/", name |-> "CLAUDE", ext |-> ".md"]    \* "~/CLAUDE.md"
AbsoluteDirs == {"/home/u/", "/proj/A/", "/proj/B/"}

\* os.path.expanduser(p)
expanduser(p) == IF p.dir = "~/" THEN [p EXCEPT !.dir = HOME \o "/"] ELSE p

\* the file a path denotes for a process whose working directory is cwd:
\* what os.path.exists, open and Path.resolve make of it
resolve(p, cwd) ==
    IF p.dir \in AbsoluteDirs THEN p ELSE [p EXCEPT !.dir = cwd \o "/" \o p.dir]

\* the file system as a process reaches it through these paths
fs_through(fsys, paths, cwd) ==
    [p \in Range(paths) |->
        IF resolve(p, cwd) \in DOMAIN fsys THEN fsys[resolve(p, cwd)] ELSE NoFile]

\* "paths = [os.path.expanduser(p) for p in paths]", the default paths
\* when none is given
expand_paths(paths, pp) ==
    IF paths = <<>> THEN sync_paths(paths, pp)
    ELSE [i \in 1..Len(paths) |-> expanduser(paths[i])]

\* rag_sync with the paths as the caller spells them
RagSyncSpelled(pp, scope, paths, force) ==
    /\ steps < MaxPathSteps
    /\ \E loc \in {Partition(scope, pp)}, ps \in {expand_paths(paths, pp)} :
       \E d1 \in {with_collection(db, loc)} :
       \E acc \in {sync_loop([coll |-> d1[loc], state |-> get_sync_state(syncFile),
                              updated |-> <<>>, skipped |-> <<>>, not_found |-> <<>>,
                              err |-> "", failed |-> NoPath, embeds |-> 0,
                              touched |-> {}],
                             ps, scope, force, fs_through(fs, ps, pp), 0,
                             [pp |-> pp, scope |-> scope])} :
          /\ db' = [d1 EXCEPT ![loc] = acc.coll]
          /\ syncFile' = IF acc.err = "" THEN save_sync_state(acc.state) ELSE syncFile
          /\ synced' = IF acc.err = ""
                       THEN synced \cup {resolve(p, pp) : p \in Range(acc.updated)}
                       ELSE synced
          /\ hist' = IF acc.err = ""
                     THEN hist_after_sync(hist, loc,
                            {resolve(p, pp) : p \in {x \in Range(ps) :
                                path_exists(fs_through(fs, ps, pp), x)}})
                     ELSE hist
          /\ last' = [NoCall EXCEPT
                        !.op = "rag_sync", !.pp = pp, !.scope = scope,
                        !.paths = ps, !.force = force,
                        !.err = acc.err, !.failed = acc.failed,
                        !.updated = IF acc.err = "" THEN acc.updated ELSE <<>>,
                        !.skipped = IF acc.err = "" THEN acc.skipped ELSE <<>>,
                        !.not_found = IF acc.err = "" THEN acc.not_found ELSE <<>>,
                        !.touched = acc.touched]
    /\ steps' = steps + 1
    /\ UNCHANGED <<fs, torn, reads, faults, stores, ioVars, capVars, chunkVars, bakVars>>

FORMAT_FILES ==
    [agents |-> [dir |-> "", name |-> "AGENTS", ext |-> ".md"],
     claude |-> [dir |-> "", name |-> "CLAUDE", ext |-> ".md"],
     gemini |-> [dir |-> "", name |-> "GEMINI", ext |-> ".md"],
     aider |-> [dir |-> "", name |-> "CONVENTIONS", ext |-> ".md"],
     cursor |-> [dir |-> ".cursor/rules/", name |-> "project", ext |-> ".mdc"]]

SECTION_ORDER ==
    <<"decision", "architecture", "preference", "bugfix", "snippet", "context">>

SECTION_NAMES ==
    [decision |-> "Decisions", architecture |-> "Architecture",
     preference |-> "Preferences", bugfix |-> "Bug Fixes",
     snippet |-> "Code Snippets", context |-> "Context"]

MAX_ENTRIES == 50

export_header(export_format) ==
    CASE export_format = "agents" -> <<"# AGENTS.md", "\n">>
      [] export_format = "claude" -> <<"# CLAUDE.md", "\n">>
      [] export_format = "gemini" -> <<"# GEMINI.md", "\n">>
      [] export_format = "aider" -> <<"# CONVENTIONS.md", "\n">>
      [] export_format = "cursor" -> <<"# Project Rules", "\n">>

\* the documents of one memory type, the project's before the global ones;
\* rows are not dated in this model, so the order the store returns them in
\* within a partition is kept
RECURSIVE memories_of(_, _, _)
memories_of(d, locs, mem_type) ==
    IF locs = <<>> THEN <<>>
    ELSE LET ids == seq_of({id \in DOMAIN d[Head(locs)] :
                        Get(d[Head(locs)][id].meta, "memory_type", "context") = mem_type})
         IN [i \in 1..Len(ids) |-> d[Head(locs)][ids[i]].doc]
                \o memories_of(d, Tail(locs), mem_type)

RECURSIVE export_entries(_)
export_entries(memories) ==
    IF memories = <<>> THEN <<>>
    ELSE <<"- ">> \o strip(Head(memories)) \o <<"\n">> \o export_entries(Tail(memories))

RECURSIVE export_sections(_, _, _)
export_sections(d, locs, k) ==
    IF k > Len(SECTION_ORDER) THEN <<>>
    ELSE LET found == memories_of(d, locs, SECTION_ORDER[k])
             memories == SubSeq(found, 1, IF Len(found) < MAX_ENTRIES THEN Len(found)
                                          ELSE MAX_ENTRIES)
         IN (IF memories = <<>> THEN <<>>
             ELSE <<"## " \o SECTION_NAMES[SECTION_ORDER[k]], "\n">>
                     \o export_entries(memories))
                \o export_sections(d, locs, k + 1)

\* the exported document: its title, then a section per memory type that has
\* memories. The quoted subtitle, the export date, the scope icons and the
\* closing note of the file are not part of this text.
export_text(export_format, d, locs) ==
    export_header(export_format) \o export_sections(d, locs, 1)

\* "Determine output path"
export_path(output_path, export_format, pp) ==
    IF output_path # NoPath THEN expanduser(output_path)
    ELSE [FORMAT_FILES[export_format] EXCEPT
             !.dir = pp \o "/" \o FORMAT_FILES[export_format].dir]

\* state_key.endswith(out_path_str), for the keys of this model: a scope,
\* ":" and a path
KeyPrefixes == {scope \o ":" : scope \in WriteScopes}
endswith(key, suffix) == \E x \in KeyPrefixes \cup {""} : key = x \o suffix

\* "PROTECTION: Refuse to overwrite source files that are indexed"
is_indexed_source(sync_state, out_path, cwd) ==
    \E state_key_ \in DOMAIN sync_state :
        endswith(state_key_, PathStr(resolve(out_path, cwd)))

\* out_path.with_suffix(out_path.suffix + ".bak")
with_bak(p) == [p EXCEPT !.ext = p.ext \o ".bak"]

\* the rename of an existing file to its .bak and the write of the export
write_export(fsys, target, text) ==
    IF path_exists(fsys, target)
    THEN (target :> FileOf(text)) @@ (with_bak(target) :> fsys[target]) @@ fsys
    ELSE (target :> FileOf(text)) @@ fsys

\* the links CLAUDE.md, GEMINI.md and CONVENTIONS.md beside an exported
\* AGENTS.md: what is there is unlinked, the link reads as the export does
link_targets(target) ==
    {[target EXCEPT !.name = FORMAT_FILES[f].name, !.ext = FORMAT_FILES[f].ext] :
        f \in {"claude", "gemini", "aider"}}

with_symlinks(fsys, target, text) ==
    [p \in DOMAIN fsys \cup link_targets(target) |->
        IF p \in link_targets(target) THEN FileOf(text) ELSE fsys[p]]

RagExport(pp, scope, export_format, output_path, create_symlinks) ==
    /\ steps < MaxPathSteps
    /\ steps' = steps + 1
    /\ \E locs \in {partitions_for(scope, pp)} :
       \E d1 \in {with_collections(db, locs)} :
       \E out_path \in {export_path(output_path, export_format, pp)} :
       \E text \in {export_text(export_format, d1, locs)} :
          /\ db' = d1
          /\ IF is_indexed_source(get_sync_state(syncFile), out_path, pp)
             THEN /\ fs' = fs
                  /\ last' = [NoCall EXCEPT
                                !.op = "rag_export", !.pp = pp, !.scope = scope,
                                !.target = export_format, !.paths = <<out_path>>,
                                !.err = "Cannot export: this file is indexed as a source"]
             ELSE /\ fs' = IF create_symlinks /\ export_format = "agents"
                           THEN with_symlinks(
                                    write_export(fs, resolve(out_path, pp), text),
                                    resolve(out_path, pp), text)
                           ELSE write_export(fs, resolve(out_path, pp), text)
                  /\ last' = [NoCall EXCEPT
                                !.op = "rag_export", !.pp = pp, !.scope = scope,
                                !.target = export_format, !.paths = <<out_path>>]
    /\ UNCHANGED <<syncFile, hist, torn, reads, faults, stores, synced, ioVars, capVars,
                   chunkVars, bakVars>>

SpelledBatches == {<<>>, <<REL_MD>>, <<TILDE_MD>>, <<HOME_MD>>, <<A_MD>>}
OutputPaths == {NoPath, REL_MD, TILDE_MD, A_MD}

NextPath ==
    \/ \E pp \in ProjectPaths, scope \in WriteScopes, paths \in SpelledBatches,
          force \in BOOLEAN :
            RagSyncSpelled(pp, scope, paths, force)
    \/ \E pp \in ProjectPaths, scope \in ReadScopes, export_format \in {"agents", "claude"},
          output_path \in OutputPaths, create_symlinks \in BOOLEAN :
            RagExport(pp, scope, export_format, output_path, create_symlinks)

SpecPath == Init /\ [][NextPath]_vars

\* ---------------------------------------------------- rag_backup, rag_restore
\* One backup file is modelled. A collection of the backup holds the ids,
\* documents and metadatas of a partition; the embeddings are saved with them
\* and restored as saved, so a restore calls no embedding service.
scopes_to_backup(scope) ==
    IF scope = SCOPE_ALL THEN <<SCOPE_PROJECT, SCOPE_GLOBAL>> ELSE <<scope>>

\* what coll.get(include=[documents, metadatas, embeddings]) returns
collection_data(coll) == [id \in DOMAIN coll |-> [doc |-> coll[id].doc, meta |-> coll[id].meta]]

\* backup_data["collections"]: an entry per scope whose partition has rows,
\* in the order of the scopes
RECURSIVE backup_collections(_, _, _)
backup_collections(d, scopes, pp) ==
    IF scopes = <<>> THEN <<>>
    ELSE LET data == collection_data(d[Partition(Head(scopes), pp)])
         IN (IF DOMAIN data # {}
             THEN <<[scope_name |-> Head(scopes), data |-> data]>>
             ELSE <<>>) \o backup_collections(d, Tail(scopes), pp)

RagBackup(pp, scope) ==
    /\ steps < MaxBackupSteps
    /\ steps' = steps + 1
    /\ \E d1 \in {with_collections(db, [i \in 1..Len(scopes_to_backup(scope)) |->
                        Partition(scopes_to_backup(scope)[i], pp)])} :
          /\ db' = d1
          /\ backup' = [exists |-> TRUE, scope |-> scope, project_path |-> pp,
                        collections |-> backup_collections(d1, scopes_to_backup(scope), pp)]
    /\ last' = [NoCall EXCEPT !.op = "rag_backup", !.pp = pp, !.scope = scope]
    /\ UNCHANGED <<fs, syncFile, hist, torn, reads, faults, stores, restored,
                   ioVars, capVars, chunkVars, pathVars>>

\* "restore_scope = target_scope if target_scope else scope_name"
restore_scope(target_scope, scope_name) ==
    IF target_scope # "" THEN target_scope ELSE scope_name

\* "If replace mode, clear existing data"
cleared(coll, mode) == IF mode = "replace" THEN EmptyColl ELSE coll

\* the ids of a collection of the backup that a merge restores
merge_restores_all(ids, coll) == ids
new_indices(ids, coll) == {id \in ids : id \notin DOMAIN coll}

\* coll.upsert(ids, documents, metadatas, embeddings)
upsert_all(coll, ids, data, writer) ==
    [id \in DOMAIN coll \cup ids |->
        IF id \in ids
        THEN [meta |-> data[id].meta, doc |-> data[id].doc, by |-> writer]
        ELSE coll[id]]

\* one pass of "for scope_name, data in backup_data['collections'].items()"
restore_collection(acc, entry, mode, target_scope, pp) ==
    LET scope == restore_scope(target_scope, entry.scope_name)
        loc == Partition(scope, pp)
        d1 == with_collection(acc.d, loc)
        coll == cleared(d1[loc], mode)
        ids == DOMAIN entry.data
        kept == IF mode = "merge" THEN new_indices(ids, coll) ELSE ids
        skipped == IF mode = "merge" THEN Cardinality(ids) - Cardinality(kept) ELSE 0
        count == [scope_name |-> entry.scope_name, restore_scope |-> scope,
                  ids |-> ids, found |-> d1[loc], restored |-> Cardinality(kept),
                  skipped |-> skipped]
    IN IF ids = {}
       THEN [acc EXCEPT !.d = [d1 EXCEPT ![loc] = coll],
                        !.counts = Append(@, [count EXCEPT !.restored = 0, !.skipped = 0])]
       ELSE [d |-> [d1 EXCEPT ![loc] = upsert_all(coll, kept, entry.data,
                                                  [pp |-> pp, scope |-> scope])],
             total_restored |-> acc.total_restored + Cardinality(kept),
             total_skipped |-> acc.total_skipped + skipped,
             counts |-> Append(acc.counts, count)]

RECURSIVE restore_loop(_, _, _, _, _)
restore_loop(acc, collections, mode, target_scope, pp) ==
    IF collections = <<>> THEN acc
    ELSE restore_loop(restore_collection(acc, Head(collections), mode, target_scope, pp),
                      Tail(collections), mode, target_scope, pp)

RagRestore(pp, mode, target_scope) ==
    /\ steps < MaxBackupSteps
    /\ steps' = steps + 1
    /\ IF ~backup.exists
       THEN /\ db' = db
            /\ restored' = NoRestore
            /\ last' = [NoCall EXCEPT !.op = "rag_restore", !.pp = pp,
                                      !.scope = target_scope, !.err = "File not found"]
       ELSE \E acc \in {restore_loop([d |-> db, total_restored |-> 0, total_skipped |-> 0,
                                      counts |-> <<>>],
                                     backup.collections, mode, target_scope, pp)} :
               /\ db' = acc.d
               /\ restored' = [op |-> "rag_restore", pp |-> pp, mode |-> mode,
                               scope |-> target_scope, before |-> db,
                               total_restored |-> acc.total_restored,
                               total_skipped |-> acc.total_skipped,
                               counts |-> acc.counts]
               /\ last' = [NoCall EXCEPT !.op = "rag_restore", !.pp = pp,
                                         !.scope = target_scope]
    /\ UNCHANGED <<fs, syncFile, hist, torn, reads, faults, stores, backup,
                   ioVars, capVars, chunkVars, pathVars>>

RestoreModes == {"merge", "replace"}
TargetScopes == {""} \cup WriteScopes       \* "" is no scope argument
BackupBatches == {<<>>, <<A_MD>>}

NextBackup ==
    \/ \E pp \in ProjectPaths, scope \in WriteScopes, paths \in BackupBatches :
            /\ steps < MaxBackupSteps
            /\ RagSync(pp, scope, paths, FALSE, 0)
            /\ UNCHANGED <<ioVars, capVars, chunkVars, pathVars, bakVars>>
    \/ \E pp \in ProjectPaths, scope \in ReadScopes : RagBackup(pp, scope)
    \/ \E pp \in ProjectPaths, mode \in RestoreModes, target_scope \in TargetScopes :
            RagRestore(pp, mode, target_scope)

SpecBackup == Init /\ [][NextBackup]_vars

\* ------------------------------------------------------ session_parser.py
\* str.lower(), letter by letter
lower_char(c) ==
    IF \E k \in 1..Len(ASCII_UPPER) : ASCII_UPPER[k] = c
    THEN ASCII_LOWER[CHOOSE k \in 1..Len(ASCII_UPPER) : ASCII_UPPER[k] = c]
    ELSE c

lower(text) == [i \in 1..Len(text) |-> lower_char(text[i])]

\* a pattern is a sequence of groups, a group the set of its alternatives
\* (an optional group has the empty alternative); the pattern matches at i
\* when some choice of alternatives stands there one after the other
RECURSIVE match_at(_, _, _)
match_at(pattern, text, i) ==
    IF pattern = <<>> THEN TRUE
    ELSE \E lit \in Head(pattern) :
            HasAt(text, i, lit) /\ match_at(Tail(pattern), text, i + Len(lit))

\* re.search(pattern, text_lower, re.IGNORECASE) is not None
re_search(pattern, text) == \E i \in 1..(Len(text) + 1) : match_at(pattern, text, i)

\* re.search(r"```[\w]*\n", text_lower, re.IGNORECASE) is not None

re_search_fence(text) ==
    \E i \in 1..Len(text) :
        /\ HasAt(text, i, <<BACKTICK, BACKTICK, BACKTICK>>)
        /\ \E n \in (i + 3)..Len(text) :
              /\ text[n] = "\n"
              /\ \A j \in (i + 3)..(n - 1) : text[j] \in WORD_CHARS

any_pattern(patterns, text) ==
    \E k \in 1..Len(patterns) : re_search(patterns[k], text)

DECISION_PATTERNS ==
    <<
       <<{<<>>, <<"j", "'", "a", "i", " ">>, <<"o", "n", " ", "a", " ">>, <<"w", "e", " ">>},
         {<<"d", "é", "c", "i", "d", "é">>, <<"d", "e", "c", "i", "d", "e", "d">>,
          <<"c", "h", "o", "i", "s", "i">>, <<"c", "h", "o", "s", "e">>,
          <<"c", "h", "o", "s", "e", "n">>, <<"o", "p", "t", "é">>,
          <<"o", "p", "t", "e", "d">>}>>,
       <<{<<>>, <<"o", "n", " ", "v", "a", " ">>,
          <<"w", "e", " ", "w", "i", "l", "l", " ">>, <<"l", "e", "t", "'", "s", " ">>},
         {<<"u", "t", "i", "l", "i", "s", "e", "r">>, <<"u", "s", "e">>,
          <<"p", "r", "e", "n", "d", "r", "e">>, <<"t", "a", "k", "e">>,
          <<"a", "l", "l", "e", "r", " ", "a", "v", "e", "c">>,
          <<"g", "o", " ", "w", "i", "t", "h">>}>>,
       <<{<<>>, <<"t", "h", "e", " ">>, <<"l", "a", " ">>, <<"l", "e", " ">>},
         {<<"s", "o", "l", "u", "t", "i", "o", "n">>,
          <<"a", "p", "p", "r", "o", "c", "h", "e">>,
          <<"a", "p", "p", "r", "o", "a", "c", "h">>,
          <<"s", "t", "r", "a", "t", "é", "g", "i", "e">>,
          <<"s", "t", "r", "a", "t", "e", "g", "y">>},
         {<<" ">>},
         {<<"e", "s", "t">>, <<"i", "s">>, <<"s", "e", "r", "a">>,
          <<"w", "i", "l", "l", " ", "b", "e">>}>>,
       <<{<<>>, <<"j", "'">>, <<"i", " ">>},
         {<<"p", "r", "é", "f", "è", "r", "e">>, <<"p", "r", "e", "f", "e", "r">>,
          <<"r", "e", "c", "o", "m", "m", "a", "n", "d", "e">>,
          <<"r", "e", "c", "o", "m", "m", "e", "n", "d">>}>>,
       <<{<<>>, <<"o", "n", " ">>, <<"w", "e", " ">>},
         {<<"p", "a", "r", "t">>, <<"g", "o">>},
         {<<" ">>},
         {<<"s", "u", "r">>, <<"w", "i", "t", "h">>, <<"f", "o", "r">>}>>
    >>

BUGFIX_PATTERNS ==
    <<
       <<{<<>>, <<"l", "e", " ">>, <<"t", "h", "e", " ">>},
         {<<"f", "i", "x">>, <<"c", "o", "r", "r", "e", "c", "t", "i", "f">>,
          <<"s", "o", "l", "u", "t", "i", "o", "n">>,
          <<"p", "r", "o", "b", "l", "è", "m", "e", " ", "r", "é", "s", "o", "l", "u">>,
          <<"p", "r", "o", "b", "l", "e", "m", " ", "s", "o", "l", "v", "e", "d">>}>>,
       <<{<<>>, <<"j", "'", "a", "i", " ">>, <<"i", " ">>},
         {<<"f", "i", "x", "é">>, <<"f", "i", "x", "e", "d">>,
          <<"c", "o", "r", "r", "i", "g", "é">>,
          <<"c", "o", "r", "r", "e", "c", "t", "e", "d">>,
          <<"r", "é", "s", "o", "l", "u">>, <<"r", "e", "s", "o", "l", "v", "e", "d">>,
          <<"r", "é", "p", "a", "r", "é">>, <<"r", "e", "p", "a", "i", "r", "e", "d">>}>>,
       <<{<<>>, <<"l", "e", " ">>, <<"t", "h", "e", " ">>},
         {<<"b", "u", "g">>, <<"e", "r", "r", "e", "u", "r">>, <<"e", "r", "r", "o", "r">>,
          <<"i", "s", "s", "u", "e">>},
         {<<" ">>},
         {<<"é", "t", "a", "i", "t">>, <<"w", "a", "s">>, <<"v", "e", "n", "a", "i", "t">>,
          <<"c", "a", "m", "e", " ", "f", "r", "o", "m">>}>>,
       <<{<<>>, <<"ç", "a", " ">>, <<"i", "t", " ">>},
         {<<"m", "a", "r", "c", "h", "e">>, <<"w", "o", "r", "k", "s">>},
         {<<" ">>},
         {<<"m", "a", "i", "n", "t", "e", "n", "a", "n", "t">>, <<"n", "o", "w">>}>>,
       <<{<<>>, <<"l", "e", " ">>, <<"t", "h", "e", " ">>},
         {<<"p", "r", "o", "b", "l", "è", "m", "e">>,
          <<"p", "r", "o", "b", "l", "e", "m">>, <<"i", "s", "s", "u", "e">>},
         {<<" ">>},
         {<<"c", "'", "é", "t", "a", "i", "t">>, <<"w", "a", "s">>, <<"e", "s", "t">>,
          <<"i", "s">>}>>
    >>

ARCHITECTURE_PATTERNS ==
    <<
       <<{<<>>, <<"l", "'">>, <<"t", "h", "e", " ">>},
         {<<"a", "r", "c", "h", "i", "t", "e", "c", "t", "u", "r", "e">>}>>,
       <<{<<>>, <<"l", "a", " ">>, <<"t", "h", "e", " ">>},
         {<<"s", "t", "r", "u", "c", "t", "u", "r", "e", " ">>},
         {<<>>, <<"d", "u", " ">>, <<"o", "f", " ", "t", "h", "e", " ">>},
         {<<"p", "r", "o", "j", "e", "t">>, <<"p", "r", "o", "j", "e", "c", "t">>,
          <<"c", "o", "d", "e">>}>>,
       <<{<<>>, <<"l", "e", " ">>, <<"t", "h", "e", " ">>},
         {<<"d", "e", "s", "i", "g", "n">>, <<"p", "a", "t", "t", "e", "r", "n">>,
          <<"m", "o", "d", "è", "l", "e">>}>>,
       <<{<<>>, <<"o", "n", " ">>, <<"w", "e", " ">>},
         {<<"o", "r", "g", "a", "n", "i", "s", "e">>,
          <<"o", "r", "g", "a", "n", "i", "z", "e">>,
          <<"s", "t", "r", "u", "c", "t", "u", "r", "e">>}>>,
       <<{<<>>, <<"l", "e", "s", " ">>, <<"t", "h", "e", " ">>},
         {<<"c", "o", "m", "p", "o", "s", "a", "n", "t", "s">>,
          <<"c", "o", "m", "p", "o", "n", "e", "n", "t", "s">>,
          <<"m", "o", "d", "u", "l", "e", "s">>, <<"s", "e", "r", "v", "i", "c", "e", "s">>}>>
    >>

PREFERENCE_PATTERNS ==
    <<
       <<{<<>>, <<"j", "e", " ">>, <<"i", " ">>},
         {<<"p", "r", "é", "f", "è", "r", "e">>, <<"p", "r", "e", "f", "e", "r">>,
          <<"a", "i", "m", "e">>, <<"l", "i", "k", "e">>, <<"v", "e", "u", "x">>,
          <<"w", "a", "n", "t">>}>>,
       <<{<<"t", "o", "u", "j", "o", "u", "r", "s", " ">>,
          <<"a", "l", "w", "a", "y", "s", " ">>},
         {<<"u", "t", "i", "l", "i", "s", "e", "r">>, <<"u", "s", "e">>,
          <<"f", "a", "i", "r", "e">>, <<"d", "o">>}>>,
       <<{<<"n", "e", " ">>, <<"d", "o", "n", "'", "t", " ">>},
         {<<"j", "a", "m", "a", "i", "s">>, <<"n", "e", "v", "e", "r">>}>>,
       <<{<<"p", "a", "r", " ", "d", "é", "f", "a", "u", "t">>,
          <<"b", "y", " ", "d", "e", "f", "a", "u", "l", "t">>}>>,
       <<{<<>>, <<"m", "a", " ">>, <<"m", "y", " ">>},
         {<<"r", "è", "g", "l", "e">>, <<"r", "u", "l", "e">>,
          <<"c", "o", "n", "v", "e", "n", "t", "i", "o", "n">>}>>
    >>

SNIPPET_PATTERNS ==
    <<
       <<{<<"v", "o", "i", "c", "i">>, <<"h", "e", "r", "e", "'", "s">>,
          <<"h", "e", "r", "e", " ", "i", "s">>},
         {<<" ">>},
         {<<>>, <<"l", "e", " ">>, <<"t", "h", "e", " ">>},
         {<<"c", "o", "d", "e">>, <<"s", "c", "r", "i", "p", "t">>,
          <<"c", "o", "m", "m", "a", "n", "d", "e">>, <<"c", "o", "m", "m", "a", "n", "d">>}>>,
       <<{<<"e", "x", "e", "m", "p", "l", "e">>, <<"e", "x", "a", "m", "p", "l", "e">>,
          <<"s", "a", "m", "p", "l", "e">>},
         {<<":">>}>>
    >>

tech_keywords ==
    << <<"p", "y", "t", "h", "o", "n">>,
       <<"j", "a", "v", "a", "s", "c", "r", "i", "p", "t">>,
       <<"t", "y", "p", "e", "s", "c", "r", "i", "p", "t">>, <<"r", "u", "s", "t">>,
       <<"g", "o">>, <<"j", "a", "v", "a">>, <<"d", "o", "c", "k", "e", "r">>,
       <<"k", "u", "b", "e", "r", "n", "e", "t", "e", "s">>, <<"k", "8", "s">>,
       <<"n", "g", "i", "n", "x">>, <<"p", "o", "s", "t", "g", "r", "e", "s">>,
       <<"p", "o", "s", "t", "g", "r", "e", "s", "q", "l">>, <<"m", "y", "s", "q", "l">>,
       <<"r", "e", "d", "i", "s">>, <<"m", "o", "n", "g", "o", "d", "b">>,
       <<"s", "q", "l", "i", "t", "e">>, <<"g", "i", "t">>,
       <<"g", "i", "t", "h", "u", "b">>, <<"a", "p", "i">>, <<"r", "e", "s", "t">>,
       <<"g", "r", "a", "p", "h", "q", "l">>, <<"g", "r", "p", "c">>,
       <<"h", "t", "t", "p">>, <<"h", "t", "t", "p", "s">>, <<"l", "i", "n", "u", "x">>,
       <<"w", "i", "n", "d", "o", "w", "s">>, <<"m", "a", "c", "o", "s">>,
       <<"u", "b", "u", "n", "t", "u">>, <<"d", "e", "b", "i", "a", "n">>,
       <<"a", "r", "c", "h">>, <<"c", "a", "c", "h", "y", "o", "s">>, <<"n", "p", "m">>,
       <<"p", "i", "p">>, <<"c", "a", "r", "g", "o">>, <<"p", "a", "c", "m", "a", "n">>,
       <<"a", "p", "t">>, <<"b", "r", "e", "w">>, <<"r", "e", "a", "c", "t">>,
       <<"v", "u", "e">>, <<"a", "n", "g", "u", "l", "a", "r">>,
       <<"s", "v", "e", "l", "t", "e">>, <<"n", "e", "x", "t", "j", "s">>,
       <<"f", "a", "s", "t", "a", "p", "i">>, <<"f", "l", "a", "s", "k">>,
       <<"d", "j", "a", "n", "g", "o">>, <<"o", "l", "l", "a", "m", "a">>,
       <<"r", "o", "c", "m">>, <<"c", "u", "d", "a">>, <<"g", "p", "u">>,
       <<"c", "p", "u">>, <<"r", "a", "m">>, <<"n", "v", "m", "e">>, <<"s", "s", "d">>,
       <<"s", "y", "s", "t", "e", "m", "d">>, <<"g", "r", "u", "b">>,
       <<"k", "e", "r", "n", "e", "l">>, <<"b", "i", "o", "s">>, <<"u", "e", "f", "i">> >>

S_TEXT == <<"t", "e", "x", "t">>

S_TOOL_USE == <<"t", "o", "o", "l", "_", "u", "s", "e">>

S_ASSISTANT == <<"a", "s", "s", "i", "s", "t", "a", "n", "t">>

S_SUMMARY == <<"s", "u", "m", "m", "a", "r", "y">>

S_USER == <<"u", "s", "e", "r">>

S_SESSION_SUMMARY == <<"S", "e", "s", "s", "i", "o", "n", " ", "s", "u", "m", "m", "a", "r", "y", ":", " ">>

S_TIMESTAMP == <<"2", "0", "2", "5", "-", "0", "1", "-", "0", "1", "T", "1", "0", ":", "0", "0", ":", "0", "0", "Z">>

TX_DECISION ==
    <<"W", "e", " ", "d", "e", "c", "i", "d", "e", "d", " ", "t", "o", " ", "u", "s", "e",
      " ", "P", "o", "s", "t", "g", "r", "e", "S", "Q", "L", " ", "f", "o", "r", " ", "s",
      "t", "o", "r", "a", "g", "e", " ", "o", "f", " ", "a", "l", "l", " ", "s", "e", "s",
      "s", "i", "o", "n", " ", "d", "a", "t", "a", ".">>

TX_SEVERAL ==
    <<"I", " ", "f", "i", "x", "e", "d", " ", "t", "h", "e", " ", "b", "u", "g", ";", " ",
      "w", "e", " ", "d", "e", "c", "i", "d", "e", "d", " ", "t", "o", " ", "k", "e", "e",
      "p", " ", "t", "h", "e", " ", "a", "r", "c", "h", "i", "t", "e", "c", "t", "u", "r",
      "e", " ", "a", "n", "d", " ", "s", "e", "r", "v", "i", "c", "e", "s">>

TX_BUGFIX ==
    <<"T", "h", "e", " ", "b", "u", "g", " ", "w", "a", "s", " ", "i", "n", " ", "t", "h",
      "e", " ", "p", "a", "r", "s", "e", "r", " ", "a", "n", "d", " ", "I", " ", "F", "I",
      "X", "E", "D", " ", "i", "t", " ", "i", "n", " ", "t", "h", "e", " ", "l", "a", "s",
      "t", " ", "c", "o", "m", "m", "i", "t", " ", "t", "o", "d", "a", "y">>

TX_ARCH ==
    <<"T", "h", "e", " ", "A", "r", "c", "h", "i", "t", "e", "c", "t", "u", "r", "e", " ",
      "h", "a", "s", " ", "t", "h", "r", "e", "e", " ", "m", "o", "d", "u", "l", "e", "s",
      " ", "a", "n", "d", " ", "t", "w", "o", " ", "b", "a", "c", "k", "g", "r", "o", "u",
      "n", "d", " ", "s", "e", "r", "v", "i", "c", "e", "s", ".">>

TX_ARCH_PREF ==
    <<"I", " ", "l", "i", "k", "e", " ", "t", "h", "i", "s", " ", "d", "e", "s", "i", "g",
      "n", " ", "a", "n", "d", " ", "I", " ", "w", "a", "n", "t", " ", "t", "h", "e", " ",
      "s", "a", "m", "e", " ", "p", "a", "t", "t", "e", "r", "n", " ", "i", "n", " ", "t",
      "h", "e", " ", "n", "e", "x", "t", " ", "o", "n", "e", ".">>

TX_PREF ==
    <<"A", "l", "w", "a", "y", "s", " ", "d", "o", " ", "a", " ", "f", "u", "l", "l", " ",
      "b", "a", "c", "k", "u", "p", " ", "b", "e", "f", "o", "r", "e", " ", "a", "n", "y",
      " ", "s", "c", "h", "e", "m", "a", " ", "c", "h", "a", "n", "g", "e", ",", " ", "b",
      "y", " ", "d", "e", "f", "a", "u", "l", "t", " ", "o", "n", ".">>

TX_SNIPPET ==
    <<BACKTICK, BACKTICK, BACKTICK, "p", "y", "t", "h", "o", "n", "\n", "p", "r", "i", "n",
      "t", "(", "1", ")", "\n", BACKTICK, BACKTICK, BACKTICK, " ", "a", "n", "d", " ", "t",
      "h", "a", "t", " ", "i", "s", " ", "a", "l", "l", " ", "t", "h", "e", "r", "e", " ",
      "i", "s", " ", "i", "n", " ", "t", "h", "i", "s", " ", "t", "i", "n", "y", " ", "b",
      "l", "o", "c", "k">>

TX_CONTEXT ==
    <<"N", "o", "t", "h", "i", "n", "g", " ", "s", "p", "e", "c", "i", "a", "l", " ", "h",
      "a", "p", "p", "e", "n", "e", "d", " ", "h", "e", "r", "e", " ", "t", "o", "d", "a",
      "y", ",", " ", "m", "o", "v", "i", "n", "g", " ", "o", "n", " ", "t", "h", "e", "n",
      ",", " ", "a", "l", "l", " ", "g", "o", "o", "d", " ", "n", "o", "w", ".">>

TX_TAGS ==
    <<"W", "e", " ", "d", "e", "c", "i", "d", "e", "d", ":", " ", "P", "y", "t", "h", "o",
      "n", " ", "J", "a", "v", "a", "S", "c", "r", "i", "p", "t", " ", "R", "u", "s", "t",
      " ", "D", "o", "c", "k", "e", "r", " ", "R", "e", "d", "i", "s", " ", "G", "i", "t",
      "H", "u", "b", " ", "L", "i", "n", "u", "x", " ", "R", "e", "a", "c", "t">>

TX_49 ==
    <<"w", "e", " ", "d", "e", "c", "i", "d", "e", "d", " ", "x", "x", "x", "x", "x", "x",
      "x", "x", "x", "x", "x", "x", "x", "x", "x", "x", "x", "x", "x", "x", "x", "x", "x",
      "x", "x", "x", "x", "x", "x", "x", "x", "x", "x", "x", "x", "x", "x", "x">>

TX_50 ==
    <<"w", "e", " ", "d", "e", "c", "i", "d", "e", "d", " ", "x", "x", "x", "x", "x", "x",
      "x", "x", "x", "x", "x", "x", "x", "x", "x", "x", "x", "x", "x", "x", "x", "x", "x",
      "x", "x", "x", "x", "x", "x", "x", "x", "x", "x", "x", "x", "x", "x", "x", "x">>

TX_51 ==
    <<"w", "e", " ", "d", "e", "c", "i", "d", "e", "d", " ", "x", "x", "x", "x", "x", "x",
      "x", "x", "x", "x", "x", "x", "x", "x", "x", "x", "x", "x", "x", "x", "x", "x", "x",
      "x", "x", "x", "x", "x", "x", "x", "x", "x", "x", "x", "x", "x", "x", "x", "x", "x">>

TX_SUMMARY ==
    <<"D", "o", "c", "k", "e", "r", " ", "s", "e", "t", "u", "p">>

\* mutant: the bugfix rules are tried before the decision rules
detect_memory_type_bugfix_first(text) ==
    LET text_lower == lower(text) IN
    IF any_pattern(BUGFIX_PATTERNS, text_lower)
    THEN [type |-> "bugfix", confidence |-> 8]
    ELSE IF any_pattern(DECISION_PATTERNS, text_lower)
    THEN [type |-> "decision", confidence |-> 8]
    ELSE IF any_pattern(ARCHITECTURE_PATTERNS, text_lower)
    THEN [type |-> "architecture", confidence |-> 7]
    ELSE IF any_pattern(PREFERENCE_PATTERNS, text_lower)
    THEN [type |-> "preference", confidence |-> 7]
    ELSE IF re_search_fence(text_lower) \/ any_pattern(SNIPPET_PATTERNS, text_lower)
    THEN [type |-> "snippet", confidence |-> 6]
    ELSE [type |-> "context", confidence |-> 5]

\* confidences are in tenths: 8 stands for 0.8
detect_memory_type(text) ==
    LET text_lower == lower(text) IN
    IF any_pattern(DECISION_PATTERNS, text_lower)
    THEN [type |-> "decision", confidence |-> 8]
    ELSE IF any_pattern(BUGFIX_PATTERNS, text_lower)
    THEN [type |-> "bugfix", confidence |-> 8]
    ELSE IF any_pattern(ARCHITECTURE_PATTERNS, text_lower)
    THEN [type |-> "architecture", confidence |-> 7]
    ELSE IF any_pattern(PREFERENCE_PATTERNS, text_lower)
    THEN [type |-> "preference", confidence |-> 7]
    ELSE IF re_search_fence(text_lower) \/ any_pattern(SNIPPET_PATTERNS, text_lower)
    THEN [type |-> "snippet", confidence |-> 6]
    ELSE [type |-> "context", confidence |-> 5]

MAX_TAGS == 5                  \* "tags[:5]"

\* seq[:n]
first_n(seq, n) == SubSeq(seq, 1, Min(n, Len(seq)))

\* mutant: the list of tags is returned whole
extract_tags_uncapped(text) ==
    LET text_lower == lower(text)
        found(keyword) == Contains(text_lower, keyword)
    IN SelectSeq(tech_keywords, found)

extract_tags(text) ==
    LET text_lower == lower(text)
        found(keyword) == Contains(text_lower, keyword)
    IN first_n(SelectSeq(tech_keywords, found), MAX_TAGS)

\* the texts of the session records drawn below, and what the classifier
\* and the tagger make of each, computed once
Texts ==
    {TX_DECISION, TX_SEVERAL, TX_BUGFIX, TX_ARCH, TX_ARCH_PREF, TX_PREF,
     TX_SNIPPET, TX_CONTEXT, TX_TAGS, TX_49, TX_50, TX_51, TX_SUMMARY}

TypeOf == [t \in Texts |-> detect_memory_type(t)]
TagsOf == [t \in Texts |-> extract_tags(t)]

\* ------------------------------------------------ session records (JSONL)
\* a line of a session file is given by the value json.loads makes of it
JNull == [t |-> "null"]
JStr(s) == [t |-> "str", v |-> s]
JList(items) == [t |-> "list", v |-> items]
JObj(fields) == [t |-> "dict", v |-> fields]
NOT_JSON == [t |-> "JSONDecodeError"]

\* dict.get(key, default)
dict_get(d, key, default) == IF key \in DOMAIN d.v THEN d.v[key] ELSE default

MIN_TEXT == 50                 \* "if len(text) > 50"
PARSER_MIN_CONFIDENCE == 7     \* "if confidence >= 0.7"
CONTENT_LIMIT == 2000          \* "text[:2000]"
SUMMARY_CONFIDENCE == 9        \* "confidence=0.9"

\* datetime.now().isoformat() at clock reading now
isoformat(now) == "now" \o ToString(now)

NoParse == [out |-> <<>>, seen |-> <<>>, err |-> ""]

\* the body of "for block in content_blocks"; seen is history: every
\* candidate formed, yielded or not
parse_block(acc, block, source, timestamp) ==
    IF block.t # "dict" THEN [acc EXCEPT !.err = "AttributeError"]
    ELSE IF dict_get(block, "type", JNull) # JStr(S_TEXT) THEN acc
    ELSE LET text == dict_get(block, "text", JStr(<<>>)) IN
         IF text.t # "str" THEN [acc EXCEPT !.err = "TypeError"]
         ELSE IF ~(Len(text.v) > MIN_TEXT) THEN acc
         ELSE LET mt == TypeOf[text.v]
                  yielded == mt.confidence >= PARSER_MIN_CONFIDENCE
                  tags == IF yielded THEN TagsOf[text.v] ELSE <<>>
              IN [acc EXCEPT
                    !.seen = Append(acc.seen,
                                [kind |-> "text", text |-> text.v,
                                 content |-> first_n(text.v, CONTENT_LIMIT),
                                 memory_type |-> mt.type,
                                 confidence |-> mt.confidence,
                                 source |-> source, timestamp |-> timestamp,
                                 yielded |-> yielded, tags |-> tags]),
                    !.out = IF yielded
                            THEN Append(acc.out,
                                    [content |-> first_n(text.v, CONTENT_LIMIT),
                                     memory_type |-> mt.type,
                                     source |-> source,
                                     timestamp |-> timestamp,
                                     confidence |-> mt.confidence,
                                     tags |-> tags])
                            ELSE acc.out]

RECURSIVE parse_blocks(_, _, _, _)
parse_blocks(acc, blocks, source, timestamp) ==
    IF blocks = <<>> \/ acc.err # "" THEN acc
    ELSE parse_blocks(parse_block(acc, Head(blocks), source, timestamp),
                      Tail(blocks), source, timestamp)

\* "if msg_type == 'assistant'"
parse_assistant(acc, msg, source, now) ==
    LET message == dict_get(msg, "message", JObj(<<>>))
        timestamp == IF "timestamp" \in DOMAIN msg.v
                     THEN Str(msg.v["timestamp"].v) ELSE isoformat(now)
    IN IF message.t # "dict" THEN [acc EXCEPT !.err = "AttributeError"]
       ELSE LET content_blocks == dict_get(message, "content", JList(<<>>)) IN
            IF content_blocks.t = "list"
            THEN parse_blocks(acc, content_blocks.v, source, timestamp)
            ELSE IF content_blocks.t = "str"
            THEN (IF content_blocks.v = <<>> THEN acc
                  ELSE [acc EXCEPT !.err = "AttributeError"])
            ELSE [acc EXCEPT !.err = "TypeError"]

\* "elif msg_type == 'summary'"
parse_summary(acc, msg, source, now) ==
    LET summary == dict_get(msg, "summary", JStr(<<>>)) IN
    IF summary.t = "null" \/ (summary.t = "str" /\ summary.v = <<>>) THEN acc
    ELSE IF summary.t # "str" THEN [acc EXCEPT !.err = "AttributeError"]
    ELSE LET content == S_SESSION_SUMMARY \o summary.v
             tags == TagsOf[summary.v]
         IN [acc EXCEPT
               !.seen = Append(acc.seen,
                           [kind |-> "summary", text |-> summary.v,
                            content |-> content,
                            memory_type |-> "context",
                            confidence |-> SUMMARY_CONFIDENCE,
                            source |-> source, timestamp |-> isoformat(now),
                            yielded |-> TRUE, tags |-> tags]),
               !.out = Append(acc.out,
                           [content |-> content,
                            memory_type |-> "context",
                            source |-> source,
                            timestamp |-> isoformat(now),
                            confidence |-> SUMMARY_CONFIDENCE,
                            tags |-> tags])]

\* the body of "for line_num, line in enumerate(f)"
parse_line(acc, line, source, now) ==
    IF line = NOT_JSON THEN acc
    ELSE IF line.t # "dict" THEN acc
    ELSE LET msg_type == dict_get(line, "type", JNull) IN
         IF msg_type = JStr(S_ASSISTANT) THEN parse_assistant(acc, line, source, now)
         ELSE IF msg_type = JStr(S_SUMMARY) THEN parse_summary(acc, line, source, now)
         ELSE acc

\* the generator: an exception ends it after what it has yielded
RECURSIVE parse_lines(_, _, _, _)
parse_lines(acc, lines, source, now) ==
    IF lines = <<>> \/ acc.err # "" THEN acc
    ELSE parse_lines(parse_line(acc, Head(lines), source, now),
                     Tail(lines), source, now)

parse_session_file(acc, file, now) == parse_lines(acc, file.lines, file.path, now)

\* get_all_sessions()[:max_sessions], then "yield from" file by file; the
\* session files are kept in the order of get_all_sessions, newest first
RECURSIVE parse_files(_, _, _)
parse_files(acc, files, now) ==
    IF files = <<>> \/ acc.err # "" THEN acc
    ELSE parse_files(parse_session_file(acc, Head(files), now), Tail(files), now)

parse_recent_sessions(max_sessions, files, now) ==
    parse_files(NoParse, first_n(files, max_sessions), now)

\* ------------------------------------------------------------ rag_capture
RECURSIVE join(_, _)
join(sep, strs) ==
    IF strs = <<>> THEN ""
    ELSE IF Len(strs) = 1 THEN Str(strs[1])
    ELSE Str(strs[1]) \o sep \o join(sep, Tail(strs))

capture_id(memory) ==
    Prefix(Md5Hex(Str(memory.content) \o memory.timestamp), 12)

capture_row(memory, writer) ==
    [doc |-> memory.content,
     meta |-> [source |-> "session:" \o memory.source,
               memory_type |-> memory.memory_type,
               tags |-> join(",", memory.tags),
               confidence |-> "0." \o ToString(memory.confidence),
               auto_captured |-> "true"],
     by |-> writer]

\* the body of "for memory in parse_recent_sessions(...)"; failAt is the
\* number of the get_embedding call that raises (0: none does)
capture_memory(acc, memory, min_confidence, dry_run, failAt, writer) ==
    IF memory.confidence < min_confidence
    THEN [acc EXCEPT !.skipped = acc.skipped + 1]
    ELSE IF dry_run
    THEN [acc EXCEPT !.captured = Append(acc.captured,
                                     [type |-> memory.memory_type, id |-> ""])]
    ELSE IF failAt = acc.embeds + 1
    THEN [acc EXCEPT !.err = "ConnectionError", !.embeds = failAt]
    ELSE [acc EXCEPT
            !.coll = upsert(acc.coll, capture_id(memory), capture_row(memory, writer)),
            !.embeds = acc.embeds + 1,
            !.captured = Append(acc.captured,
                            [type |-> memory.memory_type, id |-> capture_id(memory)])]

RECURSIVE capture_loop(_, _, _, _, _, _)
capture_loop(acc, memories, min_confidence, dry_run, failAt, writer) ==
    IF memories = <<>> \/ acc.err # "" THEN acc
    ELSE capture_loop(
            capture_memory(acc, Head(memories), min_confidence, dry_run, failAt, writer),
            Tail(memories), min_confidence, dry_run, failAt, writer)

\* Claude Code appends a record to a session file, which becomes the newest
SessionAppend(i, line) ==
    /\ steps < MaxCapSteps
    /\ Len(sessions[1].lines) + Len(sessions[2].lines) < MaxLines
    /\ steps' = steps + 1
    /\ sessions' = <<[sessions[i] EXCEPT !.lines = Append(@, line)]>>
                        \o SelectSeq(sessions, LAMBDA f : f # sessions[i])
    /\ cap' = NoCapture
    /\ UNCHANGED <<fs, db, syncFile, last, hist, torn, reads, faults, stores,
                   clock, ioVars, chunkVars, pathVars, bakVars>>

\* rag_capture of the server whose PROJECT_PATH is pp; the exception of the
\* parser reaches the loop once the memories yielded before it are handled
RagCapture(pp, scope, max_sessions, min_confidence, dry_run, failAt) ==
    /\ steps < MaxCapSteps
    /\ steps' = steps + 1
    /\ clock' = clock + 1
    /\ \E loc \in {Partition(scope, pp)},
          parse \in {parse_recent_sessions(max_sessions, sessions, clock)} :
       \E d1 \in {with_collection(db, loc)} :
       \E acc \in {capture_loop([coll |-> d1[loc], captured |-> <<>>, skipped |-> 0,
                                 err |-> "", embeds |-> 0],
                                parse.out, min_confidence, dry_run, failAt,
                                [pp |-> pp, scope |-> scope])} :
          /\ failAt = 0 \/ (acc.err = "ConnectionError" /\ faults < MaxFaults)
          /\ faults' = IF failAt = 0 THEN faults ELSE faults + 1
          /\ db' = [d1 EXCEPT ![loc] = acc.coll]
          /\ cap' = [op |-> "rag_capture", pp |-> pp, scope |-> scope,
                     max_sessions |-> max_sessions,
                     min_confidence |-> min_confidence, dry_run |-> dry_run,
                     err |-> IF acc.err # "" THEN acc.err ELSE parse.err,
                     parse_err |-> parse.err,
                     parsed |-> parse.out, seen |-> parse.seen,
                     captured |-> acc.captured, skipped |-> acc.skipped,
                     files |-> first_n(sessions, max_sessions)]
    /\ UNCHANGED <<fs, syncFile, last, hist, torn, reads, stores, sessions, ioVars,
                   chunkVars, pathVars, bakVars>>

\* ------------------------------------------------- the sessions drawn
TextBlock(text) == JObj([type |-> JStr(S_TEXT), text |-> JStr(text)])
TOOL_BLOCK == JObj([type |-> JStr(S_TOOL_USE), name |-> JStr(<<"B", "a", "s", "h">>)])

Assistant(blocks) ==
    JObj([type |-> JStr(S_ASSISTANT), timestamp |-> JStr(S_TIMESTAMP),
          message |-> JObj([content |-> JList(blocks)])])

L_DECISIONS == Assistant(<<TextBlock(TX_DECISION), TextBlock(TX_SEVERAL)>>)
L_UNDATED ==
    JObj([type |-> JStr(S_ASSISTANT),
          message |-> JObj([content |-> JList(<<TextBlock(TX_BUGFIX)>>)])])
L_MIXED ==
    Assistant(<<TOOL_BLOCK, TextBlock(TX_ARCH), TextBlock(TX_SNIPPET),
                TextBlock(TX_ARCH_PREF), TextBlock(TX_PREF)>>)
L_TAGGED == Assistant(<<TextBlock(TX_CONTEXT), TextBlock(TX_TAGS)>>)
L_EDGE == Assistant(<<TextBlock(TX_49), TextBlock(TX_50), TextBlock(TX_51)>>)
L_SUMMARY == JObj([type |-> JStr(S_SUMMARY), summary |-> JStr(TX_SUMMARY)])
L_USER == JObj([type |-> JStr(S_USER), message |-> JObj([content |-> JStr(TX_CONTEXT)])])

\* records that do not have the expected shape
L_NOT_OBJECT == JList(<<JStr(S_ASSISTANT)>>)
L_BAD_MESSAGE == JObj([type |-> JStr(S_ASSISTANT), message |-> JStr(TX_DECISION)])
L_BAD_CONTENT ==
    JObj([type |-> JStr(S_ASSISTANT), message |-> JObj([content |-> JStr(TX_DECISION)])])
L_BAD_BLOCK == Assistant(<<JStr(TX_DECISION)>>)
L_BAD_TEXT == Assistant(<<JObj([type |-> JStr(S_TEXT), text |-> JNull])>>)

WellFormedLines ==
    {L_DECISIONS, L_UNDATED, L_MIXED, L_TAGGED, L_EDGE, L_SUMMARY, L_USER}
MalformedLines ==
    {NOT_JSON, L_NOT_OBJECT, L_BAD_MESSAGE, L_BAD_CONTENT, L_BAD_BLOCK, L_BAD_TEXT}
SessionLines == WellFormedLines \cup MalformedLines

MinConfidences == {5, 7}

NextCap ==
    \/ \E i \in 1..2, line \in SessionLines : SessionAppend(i, line)
    \/ \E max_sessions \in {1, 3}, min_confidence \in MinConfidences,
          dry_run \in BOOLEAN, failAt \in 0..1 :
            RagCapture("/proj/A", SCOPE_PROJECT, max_sessions, min_confidence,
                       dry_run, failAt)

SpecCap == Init /\ [][NextCap]_vars

\* ------------------------------------------------ the contents chunked
C_EMPTY == <<>>

C_BLANK ==
    <<" ", " ", "\n", " ", "\n">>

C_BLANK_LONG == [i \in 1..120 |-> " "]

C_PY_DEFS ==
    <<"i", "m", "p", "o", "r", "t", " ", "o", "s", "\n", "\n", "d", "e", "f", " ", "f",
      "(", "x", ")", ":", "\n", " ", " ", " ", " ", "r", "e", "t", "u", "r", "n", " ", "x",
      "\n", "\n", "a", "s", "y", "n", "c", " ", "d", "e", "f", " ", "g", "(", ")", ":",
      "\n", " ", " ", " ", " ", "p", "a", "s", "s", "\n", "\n", "c", "l", "a", "s", "s",
      " ", "A", ":", "\n", " ", " ", " ", " ", "d", "e", "f", " ", "m", "(", "s", "e", "l",
      "f", ")", ":", "\n", " ", " ", " ", " ", " ", " ", " ", " ", "r", "e", "t", "u", "r",
      "n", " ", "[", "i", " ", "f", "o", "r", " ", "i", " ", "i", "n", " ", "r", "a", "n",
      "g", "e", "(", "1", "0", "0", ")", " ", "i", "f", " ", "i", " ", "%", " ", "2", " ",
      "=", "=", " ", "0", " ", "a", "n", "d", " ", "i", " ", "%", " ", "3", " ", "=", "=",
      " ", "0", "]", "\n", " ", " ", " ", " ", "d", "e", "f", " ", "n", "(", "s", "e", "l",
      "f", ")", ":", "\n", " ", " ", " ", " ", " ", " ", " ", " ", "r", "e", "t", "u", "r",
      "n", " ", "s", "e", "l", "f", ".", "m", "(", ")", "[", "0", "]", "\n">>

C_PY_FLAT ==
    <<"v", "a", "l", "u", "e", "_", "0", " ", "=", " ", "c", "o", "m", "p", "u", "t", "e",
      "(", "0", ")", "\n", "v", "a", "l", "u", "e", "_", "1", " ", "=", " ", "c", "o", "m",
      "p", "u", "t", "e", "(", "1", ")", "\n", "v", "a", "l", "u", "e", "_", "2", " ", "=",
      " ", "c", "o", "m", "p", "u", "t", "e", "(", "2", ")", "\n", "v", "a", "l", "u", "e",
      "_", "3", " ", "=", " ", "c", "o", "m", "p", "u", "t", "e", "(", "3", ")", "\n", "v",
      "a", "l", "u", "e", "_", "4", " ", "=", " ", "c", "o", "m", "p", "u", "t", "e", "(",
      "4", ")", "\n", "v", "a", "l", "u", "e", "_", "5", " ", "=", " ", "c", "o", "m", "p",
      "u", "t", "e", "(", "5", ")", "\n">>

C_PY_TAB ==
    <<"x", " ", "=", " ", "1", "\n", "\n", "d", "e", "f", "\t", "f", "(", "x", ")", ":",
      "\n", " ", " ", " ", " ", "r", "e", "t", "u", "r", "n", " ", "x", "\n", "\n", "c",
      "l", "a", "s", "s", " ", "B", ":", "\n", " ", " ", " ", " ", "p", "a", "s", "s", "\n">>

C_JS ==
    <<"i", "m", "p", "o", "r", "t", " ", "a", " ", "f", "r", "o", "m", " ", "'", "a", "'",
      "\n", "\n", "e", "x", "p", "o", "r", "t", " ", "a", "s", "y", "n", "c", " ", "f",
      "u", "n", "c", "t", "i", "o", "n", " ", "l", "o", "a", "d", "(", "u", ")", " ", "{",
      "\n", " ", " ", "r", "e", "t", "u", "r", "n", " ", "f", "e", "t", "c", "h", "(", "u",
      ")", "\n", "}", "\n", "\n", "c", "o", "n", "s", "t", " ", "a", "d", "d", " ", "=",
      " ", "(", "a", ",", " ", "b", ")", " ", "=", ">", " ", "a", " ", "+", " ", "b", "\n",
      "l", "e", "t", " ", "t", "o", "t", "a", "l", "=", " ", "0", "\n", "c", "l", "a", "s",
      "s", " ", "B", "o", "x", " ", "{", "}", "\n">>

C_MD ==
    <<"#", " ", "T", "i", "t", "l", "e", "\n", "\n", "i", "n", "t", "r", "o", " ", "t",
      "e", "x", "t", "\n", "#", "#", " ", "O", "n", "e", "\n", "s", "h", "o", "r", "t",
      " ", "s", "e", "c", "t", "i", "o", "n", "\n", "#", "#", " ", "T", "w", "o", "\n",
      "a", " ", "l", "o", "n", "g", " ", "p", "a", "r", "a", "g", "r", "a", "p", "h", " ",
      "o", "f", " ", "w", "o", "r", "d", "s", " ", "a", " ", "l", "o", "n", "g", " ", "p",
      "a", "r", "a", "g", "r", "a", "p", "h", " ", "o", "f", " ", "w", "o", "r", "d", "s",
      " ", "a", " ", "l", "o", "n", "g", " ", "p", "a", "r", "a", "g", "r", "a", "p", "h",
      " ", "o", "f", " ", "w", "o", "r", "d", "s", " ", "a", " ", "l", "o", "n", "g", " ",
      "p", "a", "r", "a", "g", "r", "a", "p", "h", " ", "o", "f", " ", "w", "o", "r", "d",
      "s", " ", "a", " ", "l", "o", "n", "g", " ", "p", "a", "r", "a", "g", "r", "a", "p",
      "h", " ", "o", "f", " ", "w", "o", "r", "d", "s", " ", "a", " ", "l", "o", "n", "g",
      " ", "p", "a", "r", "a", "g", "r", "a", "p", "h", " ", "o", "f", " ", "w", "o", "r",
      "d", "s", " ", "\n">>

C_TEXT_1000 ==
    <<"l", "o", "r", "e", "m", " ", "i", "p", "s", "u", "m", " ", "d", "o", "l", "o", "r",
      " ", "s", "i", "t", " ", "a", "m", "e", "t", " ", "l", "o", "r", "e", "m", " ", "i",
      "p", "s", "u", "m", " ", "d", "o", "l", "o", "r", " ", "s", "i", "t", " ", "a", "m",
      "e", "t", " ", "l", "o", "r", "e", "m", " ", "i", "p", "s", "u", "m", " ", "d", "o",
      "l", "o", "r", " ", "s", "i", "t", " ", "a", "m", "e", "t", " ", "l", "o", "r", "e",
      "m", " ", "i", "p", "s", "u", "m", " ", "d", "o", "l", "o", "r", " ", "s", "i", "t",
      " ", "a", "m", "e", "t", " ", "l", "o", "r", "e", "m", " ", "i", "p", "s", "u", "m",
      " ", "d", "o", "l", "o", "r", " ", "s", "i", "t", " ", "a", "m", "e", "t", " ", "l",
      "o", "r", "e", "m", " ", "i", "p", "s", "u", "m", " ", "d", "o", "l", "o", "r", " ",
      "s", "i", "t", " ", "a", "m", "e", "t", " ", "l", "o", "r", "e", "m", " ", "i", "p",
      "s", "u", "m", " ", "d", "o", "l", "o", "r", " ", "s", "i", "t", " ", "a", "m", "e",
      "t", " ", "l", "o", "r", "e", "m", " ", "i", "p", "s", "u", "m", " ", "d", "o", "l",
      "o", "r", " ", "s", "i", "t", " ", "a", "m", "e", "t", " ", "l", "o", "r", "e", "m",
      " ", "i", "p", "s", "u", "m", " ", "d", "o", "l", "o", "r", " ", "s", "i", "t", " ",
      "a", "m", "e", "t", " ", "l", "o", "r", "e", "m", " ", "i", "p", "s", "u", "m", " ",
      "d", "o", "l", "o", "r", " ", "s", "i", "t", " ", "a", "m", "e", "t", " ", "l", "o",
      "r", "e", "m", " ", "i", "p", "s", "u", "m", " ", "d", "o", "l", "o", "r", " ", "s",
      "i", "t", " ", "a", "m", "e", "t", " ", "l", "o", "r", "e", "m", " ", "i", "p", "s",
      "u", "m", " ", "d", "o", "l", "o", "r", " ", "s", "i", "t", " ", "a", "m", "e", "t",
      " ", "l", "o", "r", "e", "m", " ", "i", "p", "s", "u", "m", " ", "d", "o", "l", "o",
      "r", " ", "s", "i", "t", " ", "a", "m", "e", "t", " ", "l", "o", "r", "e", "m", " ",
      "i", "p", "s", "u", "m", " ", "d", "o", "l", "o", "r", " ", "s", "i", "t", " ", "a",
      "m", "e", "t", " ", "l", "o", "r", "e", "m", " ", "i", "p", "s", "u", "m", " ", "d",
      "o", "l", "o", "r", " ", "s", "i", "t", " ", "a", "m", "e", "t", " ", "l", "o", "r",
      "e", "m", " ", "i", "p", "s", "u", "m", " ", "d", "o", "l", "o", "r", " ", "s", "i",
      "t", " ", "a", "m", "e", "t", " ", "l", "o", "r", "e", "m", " ", "i", "p", "s", "u",
      "m", " ", "d", "o", "l", "o", "r", " ", "s", "i", "t", " ", "a", "m", "e", "t", " ",
      "l", "o", "r", "e", "m", " ", "i", "p", "s", "u", "m", " ", "d", "o", "l", "o", "r",
      " ", "s", "i", "t", " ", "a", "m", "e", "t", " ", "l", "o", "r", "e", "m", " ", "i",
      "p", "s", "u", "m", " ", "d", "o", "l", "o", "r", " ", "s", "i", "t", " ", "a", "m",
      "e", "t", " ", "l", "o", "r", "e", "m", " ", "i", "p", "s", "u", "m", " ", "d", "o",
      "l", "o", "r", " ", "s", "i", "t", " ", "a", "m", "e", "t", " ", "l", "o", "r", "e",
      "m", " ", "i", "p", "s", "u", "m", " ", "d", "o", "l", "o", "r", " ", "s", "i", "t",
      " ", "a", "m", "e", "t", " ", "l", "o", "r", "e", "m", " ", "i", "p", "s", "u", "m",
      " ", "d", "o", "l", "o", "r", " ", "s", "i", "t", " ", "a", "m", "e", "t", " ", "l",
      "o", "r", "e", "m", " ", "i", "p", "s", "u", "m", " ", "d", "o", "l", "o", "r", " ",
      "s", "i", "t", " ", "a", "m", "e", "t", " ", "l", "o", "r", "e", "m", " ", "i", "p",
      "s", "u", "m", " ", "d", "o", "l", "o", "r", " ", "s", "i", "t", " ", "a", "m", "e",
      "t", " ", "l", "o", "r", "e", "m", " ", "i", "p", "s", "u", "m", " ", "d", "o", "l",
      "o", "r", " ", "s", "i", "t", " ", "a", "m", "e", "t", " ", "l", "o", "r", "e", "m",
      " ", "i", "p", "s", "u", "m", " ", "d", "o", "l", "o", "r", " ", "s", "i", "t", " ",
      "a", "m", "e", "t", " ", "l", "o", "r", "e", "m", " ", "i", "p", "s", "u", "m", " ",
      "d", "o", "l", "o", "r", " ", "s", "i", "t", " ", "a", "m", "e", "t", " ", "l", "o",
      "r", "e", "m", " ", "i", "p", "s", "u", "m", " ", "d", "o", "l", "o", "r", " ", "s",
      "i", "t", " ", "a", "m", "e", "t", " ", "l", "o", "r", "e", "m", " ", "i", "p", "s",
      "u", "m", " ", "d", "o", "l", "o", "r", " ", "s", "i", "t", " ", "a", "m", "e", "t",
      " ", "l", "o", "r", "e", "m", " ", "i", "p", "s", "u", "m", " ", "d", "o", "l", "o",
      "r", " ", "s", "i", "t", " ", "a", "m", "e", "t", " ", "l", "o", "r", "e", "m", " ",
      "i", "p", "s", "u", "m", " ", "d", "o", "l", "o", "r", " ", "s", "i", "t", " ", "a",
      "m", "e", "t", " ", "l", "o", "r", "e", "m", " ", "i", "p", "s", "u", "m", " ", "d",
      "o", "l", "o", "r", " ", "s", "i", "t", " ", "a", "m", "e", "t", " ", "l", "o", "r",
      "e", "m", " ", "i", "p", "s", "u", "m", " ", "d", "o", "l", "o", "r", " ", "s", "i",
      "t", " ", "a", "m", "e", "t", " ", "l", "o", "r", "e", "m", " ", "i", "p", "s", "u",
      "m", " ", "d", "o", "l", "o", "r", " ", "s", "i", "t", " ", "a", "m", "e", "t", " ",
      "l", "o", "r", "e", "m", " ", "i", "p", "s", "u", "m", " ", "d", "o", "l", "o", "r",
      " ", "s", "i", "t", " ", "a", "m", "e", "t", " ", "l", "o", "r", "e", "m", " ", "i",
      "p", "s", "u", "m", " ", "d", "o", "l", "o", "r", " ", "s", "i", "t", " ", "a", "m",
      "e", "t", " ", "l", "o", "r", "e", "m", " ", "i", "p", "s", "u", "m", " ", "d", "o",
      "l", "o", "r", " ", "s", "i", "t", " ", "a", "m", "e", "t", " ", "l">>

ChunkContents ==
    {C_EMPTY, C_BLANK, C_BLANK_LONG, C_PY_DEFS, C_PY_FLAT, C_PY_TAB, C_JS, C_MD,
     C_TEXT_1000}
FileTypes == {"markdown", "python", "javascript", "typescript", "text", "json"}
ChunkSizes == {30, 50, 100, 200, 500}

\* a call of chunk_content, as rag_index, rag_sync and the tests make it
ChunkContent(content, file_type, chunk_size) ==
    /\ chunked' = [op |-> "chunk_content", content |-> content,
                   file_type |-> file_type, chunk_size |-> chunk_size,
                   chunks |-> IF chunk_content_raises(content, file_type, chunk_size) = ""
                              THEN chunk_content(content, file_type, chunk_size)
                              ELSE <<>>,
                   err |-> chunk_content_raises(content, file_type, chunk_size)]
    /\ UNCHANGED <<fs, db, syncFile, last, hist, torn, steps, reads, faults, stores,
                   ioVars, capVars, pathVars, bakVars>>

NextChunk ==
    \E content \in ChunkContents, file_type \in FileTypes, chunk_size \in ChunkSizes :
        ChunkContent(content, file_type, chunk_size)

SpecChunk == Init /\ [][NextChunk]_vars

\* ------------------------------------------------------ what is checked
\* the ids of the rows that rag_sync wrote for path p in partition loc
sync_rows(d, loc, p) ==
    IF loc \in DOMAIN d THEN get_where(d[loc], "source", "file:" \o PathStr(p)) ELSE {}

\* the rows a complete sync of the present content of p leaves in a partition
chunk_texts(p) ==
    {c.text : c \in Range(chunk_content(fs[p].bytes, file_type_of(p), CHUNK_SIZE))}

rows_are_current(d, loc, p) ==
    \A id \in sync_rows(d, loc, p) :
        /\ d[loc][id].meta.file_hash = Prefix(get_file_hash(fs[p].bytes), 16)
        /\ d[loc][id].doc \in chunk_texts(p)

persisted_hash(f, scope, p) ==
    stored_hash_of(get_sync_state(f), state_key(scope, p))

\* C1: a non-forced rag_sync of the single path p, issued after a rag_sync of
\* p completed in the same partition and with p's bytes unchanged since,
\* reports p as unchanged, issues no storage or embedding call for p and
\* leaves the number of rows stored for p unchanged.
C1_SecondSyncUnchanged ==
    [][\A p \in Files :
        LET loc == Partition(last'.scope, last'.pp) IN
        ( /\ last'.op = "rag_sync"
          /\ last'.paths = <<p>>
          /\ ~last'.force
          /\ hist[<<loc, p>>] \in {"synced", "resynced"} )
        => ( /\ last'.err = ""
             /\ last'.skipped = <<p>>
             /\ last'.updated = <<>>
             /\ p \notin last'.touched
             /\ Cardinality(sync_rows(db', loc, p)) = Cardinality(sync_rows(db, loc, p)) )
      ]_vars

C1_Witness ==
    /\ last.op = "rag_sync"
    /\ ~last.force
    /\ last.err = ""
    /\ last.paths = <<HOME_MD>>
    /\ last.skipped = <<HOME_MD>>
    /\ hist[<<Partition(last.scope, last.pp), HOME_MD>>] \in {"synced", "resynced"}
    /\ sync_rows(db, Partition(last.scope, last.pp), HOME_MD) # {}

\* C2: once a file synced in a partition has been edited and a rag_sync on
\* it has completed, every row of the partition whose source is the file is
\* a chunk of the present content and carries the present file-hash prefix.
C2_NoStaleChunks ==
    \A loc \in Partitions, p \in Files :
        hist[<<loc, p>>] = "resynced" => rows_are_current(db, loc, p)

\* C3: a failure on one path of a rag_sync batch does not keep the other
\* existing, changed paths from being re-indexed, persisted and reported.
C3_FailureIsolated ==
    [][(last'.op = "rag_sync" /\ last'.err # "")
        => \A p \in Range(last'.paths) \ {last'.failed} :
            ( /\ path_exists(fs, p)
              /\ persisted_hash(syncFile, last'.scope, p) # get_file_hash(fs[p].bytes) )
            => ( /\ p \in Range(last'.updated)
                 /\ persisted_hash(syncFile', last'.scope, p) = get_file_hash(fs[p].bytes) )
      ]_vars

\* C4: after a rag_sync of p was cut short between deleting the old chunks
\* and inserting all new ones, the next completed non-forced rag_sync of p
\* re-indexes p, and the partition then holds exactly the chunks of p.
C4_TornSyncRepaired ==
    [][\A p \in Files :
        LET loc == Partition(last'.scope, last'.pp) IN
        ( /\ last'.op = "rag_sync"
          /\ p \in Range(last'.paths)
          /\ ~last'.force
          /\ last'.err = ""
          /\ path_exists(fs, p)
          /\ <<loc, p>> \in torn )
        => ( /\ p \in Range(last'.updated)
             /\ rows_are_current(db', loc, p)
             /\ {db'[loc][id].doc : id \in sync_rows(db', loc, p)} = chunk_texts(p) )
      ]_vars

\* C5: a path given to rag_sync that does not exist is reported as not
\* found; its SyncEntry and its rows stay as they were and no embedding or
\* storage call is made for it.
C5_MissingPathReported ==
    [][\A p \in Range(last'.paths) :
        LET loc == Partition(last'.scope, last'.pp) IN
        (last'.op = "rag_sync" /\ ~path_exists(fs, p))
        => ( /\ p \in Range(last'.not_found)
             /\ persisted_hash(syncFile', last'.scope, p)
                    = persisted_hash(syncFile, last'.scope, p)
             /\ sync_rows(db', loc, p) = sync_rows(db, loc, p)
             /\ p \notin last'.touched )
      ]_vars

\* the rows now stored that were written with scope and project path
written_by(d, scope, pp) ==
    UNION {{<<l, id>> : id \in {i \in DOMAIN d[l] :
                                  d[l][i].by = [pp |-> pp, scope |-> scope]}}
           : l \in DOMAIN d}

\* C6: a record written with scope project under one project path is never
\* among the rows a project-scoped rag_search or rag_list returns under a
\* project path with another project id, and it is among the candidates of
\* a rag_search with scope all under its own project path.
C6_ScopeIsolation ==
    /\ (last.op \in {"rag_search", "rag_list"} /\ last.scope = SCOPE_PROJECT)
        => \A r \in last.results \cup last.candidates :
              LET by == db[r[1]][r[2]].by IN
              ~(by.scope = SCOPE_PROJECT
                    /\ get_project_id(by.pp) # get_project_id(last.pp))
    /\ (last.op = "rag_search" /\ last.scope = SCOPE_ALL /\ last.err = "")
        => \A r \in written_by(db, SCOPE_PROJECT, last.pp) :
              matches_type(db[r[1]][r[2]].meta, last.target) => r \in last.candidates

C6_Witness ==
    /\ last.op = "rag_search"
    /\ last.scope = SCOPE_PROJECT
    /\ last.pp = "/proj/B"
    /\ last.results # {}
    /\ written_by(db, SCOPE_PROJECT, "/proj/A") # {}

\* C7: for one working directory and one scope the web dashboard and the
\* terminal dashboard resolve the partition the MCP server resolves, so
\* they show every record the server wrote there.
C7_FrontEndsAgree ==
    last.op \in {"web_list", "tui_list"}
    => \A r \in written_by(db, SCOPE_PROJECT, last.pp)
                \cup written_by(db, SCOPE_GLOBAL, last.pp) :
          db[r[1]][r[2]].by.scope \in Range(scopes_for(last.scope))
              => r \in last.results

MaxChunkIndex == 3     \* positional row ids are looked for up to this index

\* C8: after rag_index has indexed a path, no positional row of the path
\* with an index at or above the new chunk count is left in the partition.
C8_NoSurplusRows ==
    (last.op = "rag_index" /\ last.err = "")
    => \A p \in Range(last.updated) :
          \A i \in Len(chunk_content(fs[p].bytes, file_type_of(p), CHUNK_SIZE))
                      ..MaxChunkIndex :
              index_chunk_id(PathStr(p), i)
                  \notin DOMAIN db[Partition(last.scope, last.pp)]

\* C9: rag_forget without confirm removes no row, whether the target is
\* given by a query or by a memory id.
C9_ForgetNeedsConfirm ==
    [][(last'.op = "rag_forget" /\ ~last'.confirm)
        => \A loc \in DOMAIN db : db'[loc] = db[loc]]_vars

\* C10: while and after a process writes the sync-state file, crash
\* included, loading the file gives the table the batch started from or the
\* table the batch saves.
C10_AtomicReplace ==
    \A q \in Procs :
        trunc = q => get_sync_state(syncFile) \in {pre[q], mem[q]}

\* the sync-state keys whose entry the present or latest rag_sync of q set
updated_keys(q) ==
    {k \in DOMAIN mem[q] : k \notin DOMAIN pre[q] \/ mem[q][k] # pre[q][k]}

\* C11: when the latest rag_sync runs of two server processes overlapped in
\* time on disjoint path sets and both completed, the persisted sync-state
\* table holds the SyncEntry of every path either run updated.
C11_NoLostUpdate ==
    \A q \in Procs, r \in Procs :
        ( /\ q # r
          /\ pc[q] = "done" /\ pc[r] = "done"
          /\ run[q].conc /\ run[r].conc
          /\ run[q].paths \cap run[r].paths = {} )
        => \A k \in updated_keys(q) :
              /\ k \in DOMAIN get_sync_state(syncFile)
              /\ get_sync_state(syncFile)[k] = mem[q][k]

\* ---------------------------------------------- the session classifier
\* the row id rag_capture derives for a candidate the parser formed
candidate_id(c) == Prefix(Md5Hex(Str(c.content) \o c.timestamp), 12)

\* C12: rag_capture persists every candidate of the parsed sessions whose
\* confidence is at least the threshold given, and counts every candidate
\* below the threshold as skipped.
C12_CallerFiltersByThreshold ==
    (cap.op = "rag_capture" /\ cap.err = "" /\ ~cap.dry_run)
    => /\ \A i \in 1..Len(cap.seen) :
             cap.seen[i].confidence >= cap.min_confidence
                => candidate_id(cap.seen[i])
                      \in DOMAIN db[Partition(cap.scope, cap.pp)]
       /\ cap.skipped = Cardinality({i \in 1..Len(cap.seen) :
                                        cap.seen[i].confidence < cap.min_confidence})

\* the categories in their order, each with its confidence in tenths
CATEGORIES ==
    <<[type |-> "decision", confidence |-> 8],
      [type |-> "bugfix", confidence |-> 8],
      [type |-> "architecture", confidence |-> 7],
      [type |-> "preference", confidence |-> 7],
      [type |-> "snippet", confidence |-> 6]>>

category_matches(k, text) ==
    CASE k = 1 -> any_pattern(DECISION_PATTERNS, lower(text))
      [] k = 2 -> any_pattern(BUGFIX_PATTERNS, lower(text))
      [] k = 3 -> any_pattern(ARCHITECTURE_PATTERNS, lower(text))
      [] k = 4 -> any_pattern(PREFERENCE_PATTERNS, lower(text))
      [] k = 5 -> re_search_fence(lower(text)) \/ any_pattern(SNIPPET_PATTERNS, lower(text))

matching_categories(text) == {k \in 1..Len(CATEGORIES) : category_matches(k, text)}

first_category(text) ==
    IF matching_categories(text) = {} THEN [type |-> "context", confidence |-> 5]
    ELSE CATEGORIES[CHOOSE k \in matching_categories(text) :
                        \A j \in matching_categories(text) : k <= j]

FirstCategoryOf == [t \in Texts |-> first_category(t)]
MatchingOf == [t \in Texts |-> matching_categories(t)]

\* C13: every text the parser classifies gets the first category, in the
\* order decision, bugfix, architecture, preference, snippet, that has a
\* matching pattern, with that category's confidence, and context at 0.5
\* when none matches.
C13_FirstCategoryWins ==
    \A i \in 1..Len(cap.seen) :
        cap.seen[i].kind = "text"
        => [type |-> cap.seen[i].memory_type, confidence |-> cap.seen[i].confidence]
              = FirstCategoryOf[cap.seen[i].text]

C13_Witness ==
    \E i \in 1..Len(cap.seen) :
        /\ cap.seen[i].kind = "text"
        /\ Cardinality(MatchingOf[cap.seen[i].text]) >= 2
        /\ cap.seen[i].memory_type = "decision"
        /\ cap.seen[i].confidence = 8

\* the texts of the text blocks of the well-formed assistant records
block_texts(files) ==
    UNION {UNION {{b.v["text"].v : b \in {x \in Range(l.v["message"].v["content"].v) :
                                            /\ "text" \in DOMAIN x.v
                                            /\ x.v["type"] = JStr(S_TEXT)}}
                  : l \in {x \in Range(f.lines) \cap WellFormedLines :
                              x.v["type"] = JStr(S_ASSISTANT)}}
           : f \in Range(files)}

classified_texts(seen) == {seen[i].text : i \in {j \in 1..Len(seen) : seen[j].kind = "text"}}

\* C14: a text block is discarded exactly when it is shorter than 50
\* characters: one of 49 characters is not classified, one of 50 is.
C14_DiscardBelowFifty ==
    (cap.op = "rag_capture" /\ cap.parse_err = "")
    => \A t \in block_texts(cap.files) :
          (Len(t) < 50) <=> (t \notin classified_texts(cap.seen))

\* the keyword occurs in the text, letter case set aside
occurs(keyword, text) ==
    \E i \in 1..Len(text) :
        /\ i + Len(keyword) - 1 <= Len(text)
        /\ \A j \in 1..Len(keyword) : lower_char(text[i + j - 1]) = keyword[j]

occurring(text) == SelectSeq(tech_keywords, LAMBDA k : occurs(k, text))

OccurringIn == [t \in Texts |-> occurring(t)]

\* C15: the tags of a record are the first min(5, m) of the m vocabulary
\* keywords that occur in its text, in vocabulary order: never more than
\* 5, and exactly 5 when at least 5 occur.
C15_TagsCappedInOrder ==
    \A i \in 1..Len(cap.seen) :
        cap.seen[i].yielded
        => LET m == OccurringIn[cap.seen[i].text]
               tags == cap.seen[i].tags
           IN /\ tags = SubSeq(m, 1, Min(5, Len(m)))
              /\ Len(tags) <= 5
              /\ Len(m) >= 5 => Len(tags) = 5

C15_Witness ==
    \E i \in 1..Len(cap.seen) :
        /\ cap.seen[i].yielded
        /\ Len(OccurringIn[cap.seen[i].text]) > 5
        /\ Len(cap.seen[i].tags) = 5

\* what the parser yields for a record standing alone in a file
contents_alone(line, path) ==
    {m.content : m \in Range(parse_line(NoParse, line, path, 0).out)}

\* C16: a malformed record is skipped and parsing goes on: every
\* well-formed record of the parsed files is still emitted.
C16_MalformedSkipped ==
    (cap.op = "rag_capture" /\ cap.err # "ConnectionError")
    => /\ cap.parse_err = ""
       /\ \A f \in Range(cap.files) :
             \A line \in Range(f.lines) \cap WellFormedLines :
                contents_alone(line, f.path)
                    \subseteq {m.content : m \in Range(cap.parsed)}

\* C20: a second parse of unchanged session files yields the records of
\* the first, and a second rag_capture over them adds no row.
C20_ReparseSame ==
    [][( /\ cap.op = "rag_capture" /\ cap'.op = "rag_capture"
         /\ sessions' = sessions
         /\ cap'.max_sessions = cap.max_sessions )
        => /\ cap'.parsed = cap.parsed
           /\ ( /\ cap.err = "" /\ cap'.err = ""
                /\ ~cap.dry_run /\ ~cap'.dry_run
                /\ cap'.scope = cap.scope /\ cap'.pp = cap.pp
                /\ cap'.min_confidence = cap.min_confidence )
              => DOMAIN db'[Partition(cap.scope, cap.pp)]
                    = DOMAIN db[Partition(cap.scope, cap.pp)]
      ]_vars

\* the chunk is the fallback of the generic segmenter: the only chunk of the
\* result, holding the whole content
generic_fallback(call, i) ==
    /\ call.file_type \notin {"markdown", "python", "javascript", "typescript"}
    /\ Len(call.chunks) = 1 /\ i = 1
    /\ call.chunks[i] = [text |-> call.content, type |-> "chunk"]

\* C17: for every content, every content kind and every chunk size, each
\* chunk chunk_content returns is at most chunk_size characters long, the
\* fallback chunk of the generic segmenter excepted.
C17_ChunkWithinSize ==
    chunked.op = "chunk_content"
    => \A i \in 1..Len(chunked.chunks) :
          \/ Len(chunked.chunks[i].text) <= chunked.chunk_size
          \/ generic_fallback(chunked, i)

\* C18: for every content, the empty and the blank ones included, and every
\* content kind, the text of every chunk chunk_content returns is non-empty
\* once its whitespace is trimmed.
C18_ChunkNotBlank ==
    chunked.op = "chunk_content"
    => \A i \in 1..Len(chunked.chunks) : strip(chunked.chunks[i].text) # <<>>

\* the language whose header lines cut content of this kind, "" for the others
definition_language(file_type) ==
    IF file_type = "python" THEN "python"
    ELSE IF file_type \in {"javascript", "typescript"} THEN "javascript"
    ELSE ""

\* no line of the content is a function or class header of the language
no_header_line(content, lang) ==
    \A n \in 1..Len(split_lines(content)) :
        ~re_match(header_pattern(lang), split_lines(content)[n])

\* the text is a window content[i:i+chunk_size] taken at a multiple of
\* chunk_size - 50, trimmed or not
is_window(text, content, chunk_size) ==
    \E k \in 0..Len(content) :
        /\ k * (chunk_size - OVERLAP) < Len(content)
        /\ strip(text) = strip(Slice(content, k * (chunk_size - OVERLAP),
                                     k * (chunk_size - OVERLAP) + chunk_size))

\* C19: when python or javascript/typescript content has no function or
\* class header line, the chunks returned are windows of at most
\* chunk_size characters taken with step chunk_size - 50, never the whole
\* content as one unsplit chunk longer than chunk_size.
C19_NoHeaderFallsBackToWindows ==
    ( /\ chunked.op = "chunk_content"
      /\ definition_language(chunked.file_type) # ""
      /\ no_header_line(chunked.content, definition_language(chunked.file_type)) )
    => \A i \in 1..Len(chunked.chunks) :
          /\ Len(chunked.chunks[i].text) <= chunked.chunk_size
          /\ is_window(chunked.chunks[i].text, chunked.content, chunked.chunk_size)

\* -------------------------------------------------- projects and the state
\* C23: when a server with another project path has synced p in scope
\* project and p is unchanged since, the first non-forced rag_sync of p in
\* scope project by a server whose partition never received p indexes p
\* into that partition; it does not report p unchanged.
C23_NoLeakBetweenProjects ==
    [][\A p \in Files, pp \in ProjectPaths :
        LET loc == Partition(SCOPE_PROJECT, last'.pp) IN
        ( /\ last'.op = "rag_sync"
          /\ last'.scope = SCOPE_PROJECT
          /\ last'.paths = <<p>>
          /\ ~last'.force
          /\ last'.err = ""
          /\ path_exists(fs, p)
          /\ get_project_id(pp) # get_project_id(last'.pp)
          /\ hist[<<Partition(SCOPE_PROJECT, pp), p>>] \in {"synced", "resynced"}
          /\ hist[<<loc, p>>] = "never" )
        => ( /\ p \in Range(last'.updated)
             /\ p \notin Range(last'.skipped)
             /\ sync_rows(db', loc, p) # {} )
      ]_vars

\* the SyncEntry persisted for p in the scope
entry_of(f, scope, p) == get_sync_state(f)[state_key(scope, p)]

\* C22: after rag_sync calls that all completed normally (none was cut
\* short and left a path torn), with file edits between them, every
\* persisted SyncEntry of (scope, path), read by a server for its partition
\* of that scope, holds the hash of the content last indexed for the path
\* there and a chunk count equal to the number of rows of the partition
\* whose source is 'file:' and the path.
C22_EntriesMatchPartition ==
    (faults = 0 /\ torn = {} /\ last.err = "")
    => \A scope \in WriteScopes, pp \in ProjectPaths, p \in Files :
          state_key(scope, p) \in DOMAIN get_sync_state(syncFile)
          => /\ entry_of(syncFile, scope, p).chunks
                    = Cardinality(sync_rows(db, Partition(scope, pp), p))
             /\ \A id \in sync_rows(db, Partition(scope, pp), p) :
                    db[Partition(scope, pp)][id].meta.file_hash
                        = Prefix(entry_of(syncFile, scope, p).hash, 16)

\* the sources of the rows a rag_sync of these paths may delete or overwrite
sync_sources(paths) == {"file:" \o PathStr(paths[i]) : i \in 1..Len(paths)}

\* C30: rag_sync of paths in a scope deletes or overwrites only rows of that
\* scope's partition whose source is 'file:' and one of the paths: the
\* rows of other sources (rag_index rows of the same path, manually stored
\* rows) and every row of any other partition are unchanged.
C30_SyncTouchesOwnRowsOnly ==
    [][last'.op = "rag_sync"
        => \A loc \in DOMAIN db : \A id \in DOMAIN db[loc] :
              ( \/ loc # Partition(last'.scope, last'.pp)
                \/ db[loc][id].meta.source \notin sync_sources(last'.paths) )
              => /\ id \in DOMAIN db'[loc]
                 /\ db'[loc][id] = db[loc][id]
      ]_vars

C30_Witness ==
    /\ last.op = "rag_sync"
    /\ last.updated = <<HOME_MD>>
    /\ \E id \in DOMAIN db[Partition(last.scope, last.pp)] :
          db[Partition(last.scope, last.pp)][id].meta.source = PathStr(HOME_MD)
    /\ \E loc \in DOMAIN db \ {Partition(last.scope, last.pp)} : DOMAIN db[loc] # {}

\* the kinds whose whole content goes through a window loop when it is
\* longer than chunk_size: the generic kinds, and markdown, whose sections
\* of that length do
windowed_kind(file_type) ==
    file_type \notin {"python", "javascript", "typescript"}

\* C29: for every chunk_size not above the overlap of 50 the windowed
\* splitters neither raise an unhandled error nor return content longer
\* than chunk_size without windowing it: a call returns, and non-blank
\* content of a windowed kind comes back as chunks of a positive step, each
\* at most chunk_size long, unless the call rejects the configuration.
C29_StepStaysPositive ==
    (chunked.op = "chunk_content" /\ chunked.chunk_size <= OVERLAP)
    => /\ chunked.err # "ValueError"
       /\ ( /\ chunked.err = ""
            /\ windowed_kind(chunked.file_type)
            /\ Len(strip(chunked.content)) > chunked.chunk_size )
          => /\ Len(chunked.chunks) >= 2
             /\ \A i \in 1..Len(chunked.chunks) :
                   Len(chunked.chunks[i].text) <= chunked.chunk_size

\* ------------------------------------------------ definitions of a script
\* at position i the line has whitespace and then the first character of a name
name_after_spaces(line, i) ==
    \E j \in (i + 1)..Len(line) :
        /\ \A n \in i..(j - 1) : line[n] \in SPACE_CHARS
        /\ line[j] \in WORD_CHARS

\* the line is an unindented def or async def header
def_header(line) ==
    \/ HasAt(line, 1, <<"d", "e", "f">>) /\ name_after_spaces(line, 4)
    \/ /\ HasAt(line, 1, <<"a", "s", "y", "n", "c">>)
       /\ \E j \in 7..Len(line) :
             /\ \A n \in 6..(j - 1) : line[n] \in SPACE_CHARS
             /\ HasAt(line, j, <<"d", "e", "f">>)
             /\ name_after_spaces(line, j + 3)

\* the line is an unindented class header
class_header(line) ==
    HasAt(line, 1, <<"c", "l", "a", "s", "s">>) /\ name_after_spaces(line, 6)

\* the positions, in the lines of the content, of its header lines
header_lines(lines) ==
    SelectSeq([n \in 1..Len(lines) |-> n],
              LAMBDA n : def_header(lines[n]) \/ class_header(lines[n]))

\* the lines that are not blank, trimmed, in their order
text_lines(lines) ==
    LET kept == SelectSeq(lines, LAMBDA l : strip(l) # <<>>)
    IN [n \in 1..Len(kept) |-> strip(kept[n])]

RECURSIVE all_lines(_)
all_lines(chunks) ==
    IF chunks = <<>> THEN <<>>
    ELSE split_lines(Head(chunks).text) \o all_lines(Tail(chunks))

is_prefix(a, b) == Len(a) <= Len(b) /\ SubSeq(b, 1, Len(a)) = a

\* C27: chunk_python on content with k unindented header lines returns
\* exactly k chunks of kind function or class, in source order, each
\* beginning with its header line and tagged function for def and async
\* def and class for class, preceded by one module chunk exactly when the
\* text before the first header is not blank; no line is lost or reordered.
C27_ChunkPerDefinition ==
    (chunked.op = "chunk_content" /\ chunked.file_type = "python" /\ chunked.err = "")
    => LET lines == split_lines(chunked.content)
           heads == header_lines(lines)
           before == SubSeq(lines, 1, IF heads = <<>> THEN Len(lines) ELSE heads[1] - 1)
           module == IF text_lines(before) # <<>> THEN 1 ELSE 0
           chunks == chunked.chunks
       IN /\ Len(chunks) = module + Len(heads)
          /\ module = 1 => chunks[1].type = "module"
          /\ \A k \in 1..Len(heads) :
                /\ is_prefix(rstrip(lines[heads[k]]), chunks[module + k].text)
                /\ chunks[module + k].type
                      = IF def_header(lines[heads[k]]) THEN "function" ELSE "class"
          /\ text_lines(all_lines(chunks)) = text_lines(lines)

\* ------------------------------------------------ sections of a document
\* the positions at which a line of the content starts with "## ", the
\* first line set aside: the section before it ends with the newline before
heading_starts(content) ==
    SelectSeq([n \in 1..Len(content) |-> n],
              LAMBDA n : /\ n > 1
                         /\ content[n - 1] = "\n"
                         /\ HasAt(content, n, <<"#", "#", " ">>))

\* the k-th section, k counted from 0: from the k-th heading, or from the
\* start, up to the newline before the next heading, or to the end
section_of(content, k) ==
    LET starts == heading_starts(content)
        from == IF k = 0 THEN 1 ELSE starts[k]
        to == IF k < Len(starts) THEN starts[k + 1] - 2 ELSE Len(content)
    IN SubSeq(content, from, to)

\* what the claim has a section become
expected_of(section, chunk_size) ==
    IF Len(section) <= chunk_size
    THEN (IF strip(section) # <<>>
          THEN <<[text |-> strip(section), type |-> "section"]>> ELSE <<>>)
    ELSE LET step == chunk_size - 50
             count == (Len(section) + step - 1) \div step
             windows == [k \in 1..count |->
                            SubSeq(section, (k - 1) * step + 1,
                                   Min((k - 1) * step + chunk_size, Len(section)))]
             kept == SelectSeq(windows, LAMBDA w : strip(w) # <<>>)
         IN [k \in 1..Len(kept) |-> [text |-> strip(kept[k]), type |-> "chunk"]]

RECURSIVE expected_from(_, _, _)
expected_from(content, k, chunk_size) ==
    IF k > Len(heading_starts(content)) THEN <<>>
    ELSE expected_of(section_of(content, k), chunk_size)
            \o expected_from(content, k + 1, chunk_size)

same_file(p, q, cwd) == resolve(p, cwd) = resolve(q, cwd)

\* the paths a sync call indexed or found unchanged
seen_by(call) == Range(call.updated) \cup Range(call.skipped)

\* C21: a SyncEntry is keyed by scope, ":" and the absolute path of the
\* file. After a sync every key of the sync state names an absolute path and
\* every file-sourced row names one; and when a server syncs a file and then
\* syncs it again in the same scope without force, under whatever spelling,
\* the second call reports it unchanged and the sync state holds one entry
\* for it.
C21_KeyedByAbsolutePath ==
    [][(last'.op = "rag_sync" /\ last'.err = "") =>
        /\ \A k \in DOMAIN get_sync_state(syncFile') :
              \E scope \in WriteScopes, d \in AbsoluteDirs :
                 k = state_key(scope, [REL_MD EXCEPT !.dir = d])
        /\ (/\ last.op = "rag_sync" /\ last.err = ""
            /\ last.pp = last'.pp /\ last.scope = last'.scope
            /\ ~last'.force)
           => \A p \in seen_by(last), q \in Range(last'.paths) :
                 same_file(p, q, last'.pp) =>
                    /\ q \in Range(last'.skipped)
                    /\ Cardinality({k \in DOMAIN get_sync_state(syncFile') :
                          \E x \in {p, q} : k = state_key(last'.scope, x)}) = 1
                    /\ Cardinality({src \in sync_sources(<<p, q>>) :
                          get_where(db'[Partition(last'.scope, last'.pp)],
                                    "source", src) # {}}) = 1]_vars

\* the rows of the store, partition by partition
store_rows(d) ==
    UNION {{<<loc, id, d[loc][id]>> : id \in DOMAIN d[loc]} : loc \in DOMAIN d}

\* C26: rag_export never overwrites a synced source. Whenever its output path
\* denotes a file that a sync indexed, however that sync spelled the path,
\* the call returns an error and leaves the files and the rows of the store
\* as they were.
C26_ExportSparesSyncedSources ==
    [][(/\ last'.op = "rag_export"
        /\ resolve(last'.paths[1], last'.pp) \in synced) =>
        /\ last'.err # ""
        /\ fs' = fs
        /\ store_rows(db') = store_rows(db)]_vars

\* the memories of a partition, as pairs of an id and its document and metadata
memories_in(d, loc) ==
    IF loc \in DOMAIN d THEN {<<id, collection_data(d[loc])[id]>> : id \in DOMAIN d[loc]}
    ELSE {}

\* the collections of the backup that the last restore put into a partition
restored_into(loc) ==
    {i \in 1..Len(backup.collections) :
        Partition(restore_scope(restored.scope, backup.collections[i].scope_name),
                  restored.pp) = loc}

backup_memories(i) ==
    {<<id, backup.collections[i].data[id]>> : id \in DOMAIN backup.collections[i].data}

\* C24: rag_restore in replace mode clears and restores. After it completes
\* every partition it restored into holds exactly the memories of the backup
\* collections restored into it, those of both collections when a target
\* scope sends a project and a global collection to one partition.
C24_ReplaceHoldsTheBackup ==
    (last.op = "rag_restore" /\ last.err = "" /\ restored.mode = "replace") =>
        \A loc \in DOMAIN db :
            restored_into(loc) # {} =>
                memories_in(db, loc) = UNION {backup_memories(i) : i \in restored_into(loc)}

\* C25: rag_restore in merge mode leaves every row that was in the store as
\* it was; of each collection of the backup the ids found in the target are
\* skipped and counted, the others are inserted and counted, and the two
\* counts add up to the number of ids of the collection.
C25_MergeKeepsExistingRows ==
    (last.op = "rag_restore" /\ last.err = "" /\ restored.mode = "merge") =>
        /\ \A loc \in DOMAIN restored.before : \A id \in DOMAIN restored.before[loc] :
              id \in DOMAIN db[loc] /\ db[loc][id] = restored.before[loc][id]
        /\ \A loc \in DOMAIN db :
              DOMAIN db[loc] =
                 (IF loc \in DOMAIN restored.before THEN DOMAIN restored.before[loc] ELSE {})
                    \cup UNION {DOMAIN backup.collections[i].data : i \in restored_into(loc)}
        /\ \A i \in 1..Len(restored.counts) :
              LET c == restored.counts[i]
              IN /\ c.skipped = Cardinality(c.ids \cap DOMAIN c.found)
                 /\ c.restored = Cardinality(c.ids \ DOMAIN c.found)
                 /\ c.restored + c.skipped = Cardinality(c.ids)
        /\ Len(restored.counts) = Len(backup.collections)
        /\ restored.total_skipped + restored.total_restored
              = Cardinality(UNION {{<<i, id>> : id \in DOMAIN backup.collections[i].data} :
                                      i \in 1..Len(backup.collections)})

\* a merge that skipped ids it found in a target that also held other rows,
\* and inserted the ids it did not find
C25_Witness ==
    /\ last.op = "rag_restore" /\ last.err = "" /\ restored.mode = "merge"
    /\ restored.total_skipped > 0 /\ restored.total_restored > 0
    /\ \E i \in 1..Len(restored.counts) :
          /\ restored.counts[i].skipped > 0 /\ restored.counts[i].restored > 0
          /\ \E id \in restored.counts[i].ids \cap DOMAIN restored.counts[i].found :
                restored.counts[i].found[id].by # [pp |-> restored.pp,
                                                   scope |-> restored.counts[i].restore_scope]

=============================================================================
